---- MODULE Spec2Model ----
(***************************************************************************)
(* A model of the crawl-cycle engine of rblx-finder: the games store       *)
(* (db.ts), the crawl cycles (continuous-search.ts, populate.ts) and the   *)
(* continuous-search scheduler (continuous-search.ts).                     *)
(*                                                                         *)
(* Node runs one handler at a time: an action of this model is one         *)
(* continuation, from the event that resumes it to its next await.  A      *)
(* store statement executes at some moment after it is issued; the action  *)
(* that executes it also runs the callback that receives its result.       *)
(***************************************************************************)
EXTENDS Integers, Sequences, FiniteSets, TLC

(***************************************************************************)
(* Bounds of the model.                                                    *)
(***************************************************************************)
\* calls the callers of the store make in SpecStore
MaxCalls == 2
\* letters of LETTERS a cycle walks (the code walks 32)
NumLetters == 2
\* last page of a letter on which a finite upstream shows games
MaxDataPage == 2
\* cycles the scheduler starts in Spec
MaxRuns == 2
\* entries of the largest page batch
MaxBatch == 2
\* the anchors and the JSON items of one rendered page are at most this many
MaxItems == 2
\* chats that have written to the bot
MaxChats == 3
\* characters of the configured ALLOWED_USER_IDS
MaxConfig == 3

(***************************************************************************)
(* Constants of the program.                                               *)
(***************************************************************************)
\* const maxEmptyPages = 3
maxEmptyPages == 3
\* config.CONCURRENCY, the width of pLimit
CONCURRENCY == 3

(***************************************************************************)
(* The catalogue entries the upstream can show.                            *)
(***************************************************************************)
SourceIds == {"A", "B"}
Titles == {"Foo", "Bar"}
Urls == {"u1", "u2"}
\* two titles can share a url, and every (title, url) shows under both identities
Listings == {<<"Foo", "u1">>, <<"Bar", "u1">>, <<"Bar", "u2">>}
Games == {g \in [source_id : SourceIds, title : Titles, url : Urls] :
             <<g.title, g.url>> \in Listings}

\* outcome of the store engine for one statement, apart from its constraints
IoOutcomes == {"ok", "ioerror"}

VARIABLES
    db,         \* the games table: [games, lastId, clock]
    workers,    \* SpecStore: the store call each caller has in flight
    finished,   \* SpecStore: the calls that returned, oldest first (history)
    ncalls,     \* SpecStore: calls made so far
    runs,       \* the crawl cycles: performContinuousSearch / parseNewGames
    isContinuousSearchRunning,
    isStarting,
    isParsing,
    nextCycleTimeout,   \* the handle kept of the last timer armed, 0: null
    timers,     \* the next-cycle timers armed and neither fired nor cleared
    client,     \* SpecFetch: one call of the fetch client
    notifier,   \* SpecNotify: one call of sendSingleGameNotification
    access      \* SpecAccess: the configured list and the message being served

storeVars == <<db, workers, finished, ncalls>>
runVars == <<runs, isContinuousSearchRunning, isStarting, isParsing,
             nextCycleTimeout, timers>>
unitVars == <<client, notifier, access>>
vars == <<db, workers, finished, ncalls, runs, isContinuousSearchRunning,
          isStarting, isParsing, nextCycleTimeout, timers, client, notifier,
          access>>

\* the largest number a counter holds: adding one to it gives it back, as for a
\* JavaScript number at 2^53; more than a cycle over a finite upstream counts
MaxNumber == NumLetters * (MaxDataPage + maxEmptyPages) * (MaxBatch + 1) + 1

\* n + 1 as a counter holds it
Inc(n) == IF n >= MaxNumber THEN n ELSE n + 1

\* n + k as a counter holds it
Plus(n, k) == IF n + k >= MaxNumber THEN MaxNumber ELSE n + k

(***************************************************************************)
(* The store: table games of initSchema, and the statements run on it.     *)
(***************************************************************************)
\* CREATE TABLE games: no row, AUTOINCREMENT not yet used
EmptyDb == [games |-> {}, lastId |-> 0, clock |-> 0]

\* SELECT id, source_id FROM games WHERE title = ? AND url = ?
SelectByTitleUrl(d, g) == {r \in d.games : r.title = g.title /\ r.url = g.url}

\* SELECT id FROM games WHERE source_id = ?
SelectBySourceId(d, g) == {r \in d.games : r.source_id = g.source_id}

\* SELECT id FROM games WHERE url = ?
SelectByUrl(d, g) == {r \in d.games : r.url = g.url}

\* the table without the UNIQUE constraint on source_id
UniqueViolation_Unconstrained(d, id, sid) == FALSE

\* source_id TEXT UNIQUE: would row id (0: a new row) holding sid clash with
\* another row
UniqueViolation(d, id, sid) ==
    \E r \in d.games : r.id # id /\ r.source_id = sid

\* UPDATE games SET source_id = ?, updated_at = CURRENT_TIMESTAMP WHERE id = ?
UpdateSourceId(d, id, g) ==
    [d EXCEPT !.clock = Inc(d.clock),
              !.games = {IF r.id = id
                         THEN [r EXCEPT !.source_id = g.source_id,
                                        !.updated_at = Inc(d.clock)]
                         ELSE r : r \in d.games}]

\* UPDATE games SET title = ?, url = ?, updated_at = ... WHERE source_id = ?
UpdateTitleUrl(d, g) ==
    [d EXCEPT !.clock = Inc(d.clock),
              !.games = {IF r.source_id = g.source_id
                         THEN [r EXCEPT !.title = g.title, !.url = g.url,
                                        !.updated_at = Inc(d.clock)]
                         ELSE r : r \in d.games}]

\* INSERT INTO games (source_id, title, url) VALUES (?, ?, ?)
InsertRow(d, g) ==
    [d EXCEPT !.clock = Inc(d.clock),
              !.lastId = d.lastId + 1,
              !.games = d.games \cup
                  {[id |-> d.lastId + 1, source_id |-> g.source_id,
                    title |-> g.title, url |-> g.url,
                    created_at |-> Inc(d.clock), updated_at |-> Inc(d.clock)]}]

\* INSERT OR REPLACE INTO games (source_id, title, url, updated_at)
InsertOrReplace(d, g) ==
    InsertRow([d EXCEPT !.games = d.games \ SelectBySourceId(d, g)], g)

(***************************************************************************)
(* One call of the store, as the statements it runs.  A call is            *)
(* [op, pc, game, dupId, result]; pc names the statement it waits for.     *)
(***************************************************************************)
NoCall == [op |-> "none", pc |-> "idle", game |-> CHOOSE g \in Games : TRUE,
           dupId |-> 0, result |-> "none"]

NewCall(op, g) ==
    [op |-> op,
     pc |-> CASE op = "upsertGameWithStatus" -> "lookupDup"
              [] op = "upsertGame" -> "replace"
              [] OTHER -> "existsByUrl",
     game |-> g, dupId |-> 0, result |-> "pending"]

Settle(call, res) == [call EXCEPT !.pc = "settled", !.result = res]

InFlight(call) == call.pc \notin {"idle", "settled"}

\* the (title, url) lookup never finding a record
LookupDuplicate_FindsNone(call, d, io) ==
    IF io = "ioerror" THEN {[call |-> Settle(call, "ioerror"), db |-> d]}
    ELSE {[call |-> [call EXCEPT !.pc = "lookupId"], db |-> d]}

\* db.get by (title, url) and its callback
LookupDuplicate(call, d, io) ==
    IF io = "ioerror" THEN {[call |-> Settle(call, "ioerror"), db |-> d]}
    ELSE IF SelectByTitleUrl(d, call.game) # {}
    THEN {[call |-> [call EXCEPT !.pc = "updateDup", !.dupId = r.id], db |-> d] :
             r \in SelectByTitleUrl(d, call.game)}
    ELSE {[call |-> [call EXCEPT !.pc = "lookupId"], db |-> d]}

\* the (title, url) branch resolving isNew: true
UpdateDuplicate_AsNew(call, d, io) ==
    IF io = "ioerror" THEN {[call |-> Settle(call, "ioerror"), db |-> d]}
    ELSE IF UniqueViolation(d, call.dupId, call.game.source_id)
              /\ \E r \in d.games : r.id = call.dupId
    THEN {[call |-> Settle(call, "constraint"), db |-> d]}
    ELSE {[call |-> Settle(call, "new"),
           db |-> UpdateSourceId(d, call.dupId, call.game)]}

\* the UPDATE of the (title, url) branch and its callback
UpdateDuplicate(call, d, io) ==
    IF io = "ioerror" THEN {[call |-> Settle(call, "ioerror"), db |-> d]}
    ELSE IF UniqueViolation(d, call.dupId, call.game.source_id)
              /\ \E r \in d.games : r.id = call.dupId
    THEN {[call |-> Settle(call, "constraint"), db |-> d]}
    ELSE {[call |-> Settle(call, "updated"),
           db |-> UpdateSourceId(d, call.dupId, call.game)]}

\* db.get by source_id and its callback
LookupSourceId(call, d, io) ==
    IF io = "ioerror" THEN {[call |-> Settle(call, "ioerror"), db |-> d]}
    ELSE IF SelectBySourceId(d, call.game) # {}
    THEN {[call |-> [call EXCEPT !.pc = "updateId"], db |-> d]}
    ELSE {[call |-> [call EXCEPT !.pc = "insert"], db |-> d]}

\* the UPDATE of the source_id branch and its callback
UpdateExisting(call, d, io) ==
    IF io = "ioerror" THEN {[call |-> Settle(call, "ioerror"), db |-> d]}
    ELSE {[call |-> Settle(call, "updated"), db |-> UpdateTitleUrl(d, call.game)]}

\* the insert branch resolving isNew: false
InsertNew_AsUpdated(call, d, io) ==
    IF io = "ioerror" THEN {[call |-> Settle(call, "ioerror"), db |-> d]}
    ELSE IF UniqueViolation(d, 0, call.game.source_id)
    THEN {[call |-> Settle(call, "constraint"), db |-> d]}
    ELSE {[call |-> Settle(call, "updated"), db |-> InsertRow(d, call.game)]}

\* the INSERT of a new game and its callback
InsertNew(call, d, io) ==
    IF io = "ioerror" THEN {[call |-> Settle(call, "ioerror"), db |-> d]}
    ELSE IF UniqueViolation(d, 0, call.game.source_id)
    THEN {[call |-> Settle(call, "constraint"), db |-> d]}
    ELSE {[call |-> Settle(call, "new"), db |-> InsertRow(d, call.game)]}

\* upsertGame: INSERT OR REPLACE and its callback
Replace(call, d, io) ==
    IF io = "ioerror" THEN {[call |-> Settle(call, "ioerror"), db |-> d]}
    ELSE {[call |-> Settle(call, "replaced"), db |-> InsertOrReplace(d, call.game)]}

\* gameExistsByUrl: db.get by url and its callback
ExistsByUrl(call, d, io) ==
    IF io = "ioerror" THEN {[call |-> Settle(call, "ioerror"), db |-> d]}
    ELSE {[call |-> Settle(call, IF SelectByUrl(d, call.game) # {}
                                 THEN "exists" ELSE "absent"),
           db |-> d]}

\* the statement a call in flight waits for, executed on d
StoreStep(call, d, io) ==
    CASE call.pc = "lookupDup" -> LookupDuplicate(call, d, io)
      [] call.pc = "updateDup" -> UpdateDuplicate(call, d, io)
      [] call.pc = "lookupId" -> LookupSourceId(call, d, io)
      [] call.pc = "updateId" -> UpdateExisting(call, d, io)
      [] call.pc = "insert" -> InsertNew(call, d, io)
      [] call.pc = "replace" -> Replace(call, d, io)
      [] call.pc = "existsByUrl" -> ExistsByUrl(call, d, io)
      [] OTHER -> {}

\* the cycles the model follows, and a cycle not started
RunIds == 1..MaxRuns

NoWalk == [i |-> 0, fetched |-> <<>>, sizes |-> <<>>, reason |-> "none"]

\* ProgressInfo before the first updateProgress
NoProgress ==
    [letterIndex |-> 0, currentPage |-> 0, totalGames |-> 0, newGames |-> 0,
     updatedGames |-> 0, skippedGames |-> 0, errors |-> 0, isComplete |-> FALSE]

IdleRun ==
    [kind |-> "continuous", pc |-> "idle", i |-> 0, page |-> 0,
     emptyPagesCount |-> 0, processedPages |-> {},
     totalGames |-> 0, newGames |-> 0, updatedGames |-> 0, skippedGames |-> 0,
     errors |-> 0, tasks |-> <<>>,
     issued |-> [keys |-> 0, fetches |-> 0, upserts |-> 0, notifies |-> 0],
     fetched |-> <<>>, sizes |-> <<>>, lastWalk |-> NoWalk,
     progress |-> NoProgress, callback |-> "none", aborted |-> FALSE,
     cancelAsked |-> FALSE, hit |-> FALSE, closed |-> FALSE]

(***************************************************************************)
(* SpecStore: callers of the store, each with one call in flight.          *)
(***************************************************************************)
Workers == {1, 2}

StoreOps == {"upsertGame", "upsertGameWithStatus"}

\* a caller's slot: its call, the call's number, the table when it was made,
\* and the numbers of the calls in flight at some moment of it
IdleWorker == [call |-> NoCall, n |-> 0, pre |-> {}, seen |-> {}]

\* the table when the callers start: new, or holding one game already
SeedDbs == {EmptyDb} \cup {InsertRow(EmptyDb, g) : g \in Games}

\* the history keeps the last two calls that returned
LastTwo(seq) == IF Len(seq) > 2 THEN Tail(seq) ELSE seq

\* no call of the fetch client, no notification and no message in hand
IdleClient == [pc |-> "idle"]
IdleNotifier == [pc |-> "idle"]
NoAccess == [pc |-> "idle"]

InitStore ==
    /\ db \in SeedDbs
    /\ workers = [w \in Workers |-> IdleWorker]
    /\ finished = <<>>
    /\ ncalls = 0
    /\ runs = [c \in RunIds |-> IdleRun]
    /\ isContinuousSearchRunning = FALSE
    /\ isStarting = FALSE
    /\ isParsing = FALSE
    /\ nextCycleTimeout = 0
    /\ timers = {}
    /\ client = IdleClient
    /\ notifier = IdleNotifier
    /\ access = NoAccess

\* a caller calls upsertGame(g) or upsertGameWithStatus(g); of two idle
\* callers the first one calls
CallStore(w, op, g) ==
    /\ ncalls < MaxCalls
    /\ ~InFlight(workers[w].call)
    /\ \A v \in Workers : v < w => InFlight(workers[v].call)
    /\ ncalls' = ncalls + 1
    /\ LET others == {v \in Workers : v # w /\ InFlight(workers[v].call)}
       IN workers' = [v \in Workers |->
                        IF v = w
                        THEN [call |-> NewCall(op, g), n |-> ncalls + 1,
                              pre |-> db.games,
                              seen |-> {workers[u].n : u \in others}]
                        ELSE IF v \in others
                             THEN [workers[v] EXCEPT !.seen = @ \cup {ncalls + 1}]
                             ELSE workers[v]]
    /\ UNCHANGED <<db, finished>>
    /\ UNCHANGED <<runVars, unitVars>>

\* what the history keeps of a call that returned
Returned(wk, call, d) ==
    [op |-> call.op, game |-> call.game, result |-> call.result,
     dupId |-> call.dupId, n |-> wk.n, seen |-> wk.seen,
     pre |-> wk.pre, post |-> d.games]

\* the store executes the statement a call waits for
ExecStore(w, io) ==
    /\ InFlight(workers[w].call)
    /\ \E out \in StoreStep(workers[w].call, db, io) :
          /\ db' = out.db
          /\ workers' = [workers EXCEPT ![w].call = out.call]
          /\ finished' = IF out.call.pc = "settled"
                         THEN LastTwo(Append(finished,
                                             Returned(workers[w], out.call, out.db)))
                         ELSE finished
    /\ UNCHANGED ncalls
    /\ UNCHANGED <<runVars, unitVars>>

NextStore ==
    \/ \E w \in Workers, op \in StoreOps, g \in Games : CallStore(w, op, g)
    \/ \E w \in Workers, io \in IoOutcomes : ExecStore(w, io)

SpecStore == InitStore /\ [][NextStore]_vars

(***************************************************************************)
(* A crawl cycle: performContinuousSearch (kind "continuous") or            *)
(* parseNewGames (kind "parse").  pc names what the cycle awaits:           *)
(*   "init"  parse only: bot.sendMessage of handleParseGames,               *)
(*   "browser" parse only: initBrowser of handleParseGames,                 *)
(*   "fetch" fetchGamesByLetter / fetchGamesByLetterPage,                   *)
(*   "delay" continuous only: the one-second pause before a batch,          *)
(*   "join"  Promise.all of the batch's limit tasks,                        *)
(*   "count" parse only: getGameCount,                                      *)
(*   "done"  returned.                                                      *)
(* cancelAsked, hit and closed belong to the bot's handlers: a cancel       *)
(* request was handled while the cycle ran, closeBrowser ran while the      *)
(* cycle awaited a fetch, the handler of the parse cycle closed the browser.*)
(* issued, fetched, sizes and lastWalk are history: how many letters the    *)
(* cycle entered and how many fetches and upsert calls it issued, the pages *)
(* fetched for the current letter, the sizes of their batches, and the walk *)
(* that ended last.  progress is the ProgressInfo parseNewGames handed last *)
(* to updateProgress.                                                       *)
(***************************************************************************)
\* a history sequence, kept as long as a counter can count it
Record(seq, x) == IF Len(seq) < MaxNumber THEN Append(seq, x) ELSE seq

\* one limit task of a batch: the entry, what it awaits ("queued": waiting in
\* pLimit, "call": a store call, "notify": sendSingleGameNotification, "done")
\* and how it ended
QueuedTask(g) ==
    [game |-> g, pc |-> "queued", call |-> NoCall, outcome |-> "none",
     notified |-> 0]

Active(r) == {k \in DOMAIN r.tasks : r.tasks[k].pc \in {"call", "notify"}}

Queued(r) == {k \in DOMAIN r.tasks : r.tasks[k].pc = "queued"}

Min(S) == CHOOSE x \in S : \A y \in S : x <= y

\* the task's function up to its first await: the cancellation check, then
\* gameExistsByUrl (parse) or upsertGameWithStatus (continuous)
StartTask(r, k, cancelled) ==
    IF cancelled
    THEN [r EXCEPT !.tasks[k].pc = "done", !.tasks[k].outcome = "cancelled"]
    ELSE IF r.kind = "parse"
    THEN [r EXCEPT !.tasks[k].pc = "call",
                   !.tasks[k].call = NewCall("gameExistsByUrl", r.tasks[k].game)]
    ELSE [r EXCEPT !.tasks[k].pc = "call",
                   !.tasks[k].call =
                       NewCall("upsertGameWithStatus", r.tasks[k].game),
                   !.issued.upserts = Inc(r.issued.upserts)]

RECURSIVE Pump(_, _)

\* a pool that starts every queued task, however many run
Pump_Unbounded(r, cancelled) ==
    IF Queued(r) = {} THEN r
    ELSE Pump(StartTask(r, Min(Queued(r)), cancelled), cancelled)

\* pLimit: while fewer than CONCURRENCY tasks run, the first queued one starts
Pump(r, cancelled) ==
    IF Queued(r) = {} \/ Cardinality(Active(r)) >= CONCURRENCY THEN r
    ELSE Pump(StartTask(r, Min(Queued(r)), cancelled), cancelled)

\* updateProgress of parseNewGames (performContinuousSearch reports none)
UpdateProgress(r, letterIndex, currentPage, isComplete) ==
    IF r.kind # "parse" THEN r
    ELSE [r EXCEPT !.progress =
             [letterIndex |-> letterIndex, currentPage |-> currentPage,
              totalGames |-> r.totalGames, newGames |-> r.newGames,
              updatedGames |-> r.updatedGames,
              skippedGames |-> r.skippedGames, errors |-> r.errors,
              isComplete |-> isComplete]]

\* the walk of letter r.i ends: history only
EndWalk(r, reason) ==
    [r EXCEPT !.lastWalk = [i |-> r.i, fetched |-> r.fetched,
                            sizes |-> r.sizes, reason |-> reason]]

\* after the letter loop: parseNewGames awaits getGameCount, the continuous
\* cycle returns
Finish(r) == [r EXCEPT !.pc = IF r.kind = "parse" THEN "count" ELSE "done",
                       !.tasks = <<>>]

RECURSIVE EnterLetter(_, _)
RECURSIVE EnterPage(_, _)

\* the letter loop at letter r.i: the bound, the cancellation check, the
\* updateProgress ahead of the try block, page = 1.  What the callback throws
\* there leaves parseNewGames: aborted is history of that
EnterLetter(r, cancelled) ==
    IF r.i > NumLetters \/ cancelled THEN Finish(r)
    ELSE IF r.kind = "parse" /\ r.callback = "throws"
    THEN [r EXCEPT !.pc = "done", !.aborted = TRUE,
                   !.issued.keys = Inc(r.issued.keys)]
    ELSE EnterPage([UpdateProgress(r, r.i, 1, FALSE)
                        EXCEPT !.page = 1, !.emptyPagesCount = 0,
                               !.processedPages = {}, !.tasks = <<>>,
                               !.issued.keys = Inc(r.issued.keys),
                               !.fetched = <<>>, !.sizes = <<>>], cancelled)

\* the top of for (;;): the cancellation check, the processedPages check of
\* parseNewGames, then the fetch of page r.page is issued
EnterPage(r, cancelled) ==
    IF cancelled
    THEN EnterLetter([EndWalk(r, "cancel") EXCEPT !.i = r.i + 1], cancelled)
    ELSE IF r.kind = "parse" /\ r.page \in r.processedPages
    THEN EnterPage([r EXCEPT !.page = Inc(r.page)], cancelled)
    ELSE [UpdateProgress(r, r.i, r.page, FALSE)
             EXCEPT !.pc = "fetch",
                   !.tasks = <<>>,
                   !.processedPages = IF r.kind = "parse"
                                      THEN r.processedPages \cup {r.page}
                                      ELSE r.processedPages,
                   !.issued.fetches = Inc(r.issued.fetches),
                   !.fetched = Record(r.fetched, r.page)]

\* Promise.all resolved: page += 1 and back to the top of for (;;)
JoinDone(r, cancelled) ==
    EnterPage([UpdateProgress(r, r.i, r.page, FALSE)
                  EXCEPT !.page = Inc(r.page)], cancelled)

\* the limit tasks of the batch are made; those pLimit admits start
StartBatch(r, cancelled) ==
    LET p == Pump([r EXCEPT !.pc = "join"], cancelled)
    IN IF \A k \in DOMAIN p.tasks : p.tasks[k].pc = "done"
       THEN JoinDone(p, cancelled)
       ELSE p

\* a join that resolves as soon as one task has returned
TaskDone_JoinsOnFirst(r, cancelled) == JoinDone(Pump(r, cancelled), cancelled)

\* a task returned: pLimit starts the next queued one; the join resolves when
\* the last task has returned
TaskDone(r, cancelled) ==
    LET p == Pump(r, cancelled)
    IN IF \A k \in DOMAIN p.tasks : p.tasks[k].pc = "done"
       THEN JoinDone(p, cancelled)
       ELSE p

\* an empty page after which the same page is fetched again
EmptyPage_SamePage(r, cancelled) ==
    LET q == [r EXCEPT !.emptyPagesCount = Inc(r.emptyPagesCount)]
    IN IF q.emptyPagesCount >= maxEmptyPages
       THEN EnterLetter([EndWalk(q, "streak") EXCEPT !.i = r.i + 1], cancelled)
       ELSE EnterPage(q, cancelled)

\* an empty page: the streak grows; at maxEmptyPages the walk of the letter
\* ends, else the next page
EmptyPage(r, cancelled) ==
    LET q == [r EXCEPT !.emptyPagesCount = Inc(r.emptyPagesCount)]
    IN IF q.emptyPagesCount >= maxEmptyPages
       THEN EnterLetter([EndWalk(q, "streak") EXCEPT !.i = r.i + 1], cancelled)
       ELSE EnterPage([q EXCEPT !.page = Inc(r.page)], cancelled)

\* a non-empty page that leaves the streak as it is
NonEmptyPage_KeepsStreak(r, pageGames, cancelled) ==
    LET q == [r EXCEPT !.totalGames = Plus(r.totalGames, Len(pageGames)),
                       !.tasks = [k \in 1..Len(pageGames) |->
                                     QueuedTask(pageGames[k])]]
    IN IF r.kind = "continuous" /\ r.page > 1
       THEN [q EXCEPT !.pc = "delay"]
       ELSE StartBatch(q, cancelled)

\* a non-empty page counted as one entry, whatever its batch holds
NonEmptyPage_CountsPages(r, pageGames, cancelled) ==
    LET q == [r EXCEPT !.emptyPagesCount = 0,
                       !.totalGames = Inc(r.totalGames),
                       !.tasks = [k \in 1..Len(pageGames) |->
                                     QueuedTask(pageGames[k])]]
    IN IF r.kind = "continuous" /\ r.page > 1
       THEN [q EXCEPT !.pc = "delay"]
       ELSE StartBatch(q, cancelled)

\* a non-empty page: the streak is reset and the batch counted; the
\* continuous cycle pauses a second before the batch of a later page
NonEmptyPage(r, pageGames, cancelled) ==
    LET q == [r EXCEPT !.emptyPagesCount = 0,
                       !.totalGames = Plus(r.totalGames, Len(pageGames)),
                       !.tasks = [k \in 1..Len(pageGames) |->
                                     QueuedTask(pageGames[k])]]
    IN IF r.kind = "continuous" /\ r.page > 1
       THEN [q EXCEPT !.pc = "delay"]
       ELSE StartBatch(q, cancelled)

\* the fetch settled: with pageGames, or by throwing, which the inner catch
\* turns into no games
AfterFetch(r, pageGames, cancelled) ==
    LET q == [r EXCEPT !.sizes = Record(r.sizes, Len(pageGames))]
    IN IF Len(pageGames) = 0
       THEN EmptyPage(q, cancelled)
       ELSE NonEmptyPage(q, pageGames, cancelled)

\* task k calls sendSingleGameNotification and awaits it; notified and
\* issued.notifies are history: the calls made for the task, for the cycle
Notify(r, k) ==
    [r EXCEPT !.tasks[k].pc = "notify",
              !.tasks[k].notified = @ + 1,
              !.issued.notifies = Inc(@)]

\* a store call whose failure drops the rest of the batch
AfterCall_ErrorAbortsBatch(r, k, res, cancelled) ==
    LET end(q, how) == TaskDone([q EXCEPT !.tasks[k].pc = "done",
                                          !.tasks[k].outcome = how], cancelled)
    IN CASE res \in {"ioerror", "constraint"} ->
              JoinDone([r EXCEPT !.errors = Inc(r.errors)], cancelled)
         [] res = "exists" ->
              end([r EXCEPT !.skippedGames = Inc(r.skippedGames)], "skipped")
         [] res = "absent" ->
              [r EXCEPT !.tasks[k].call =
                            NewCall("upsertGameWithStatus", r.tasks[k].game),
                        !.issued.upserts = Inc(r.issued.upserts)]
         [] res = "new" /\ r.kind = "continuous" ->
              Notify([r EXCEPT !.newGames = Inc(r.newGames),
                               !.tasks[k].outcome = "new"], k)
         [] res = "new" ->
              end([r EXCEPT !.newGames = Inc(r.newGames)], "new")
         [] OTHER ->
              end([r EXCEPT !.updatedGames = Inc(r.updatedGames)], "updated")

\* a store call whose failure ends the cycle
AfterCall_ErrorEndsCycle(r, k, res, cancelled) ==
    LET end(q, how) == TaskDone([q EXCEPT !.tasks[k].pc = "done",
                                          !.tasks[k].outcome = how], cancelled)
    IN CASE res \in {"ioerror", "constraint"} ->
              Finish([r EXCEPT !.errors = Inc(r.errors)])
         [] res = "exists" ->
              end([r EXCEPT !.skippedGames = Inc(r.skippedGames)], "skipped")
         [] res = "absent" ->
              [r EXCEPT !.tasks[k].call =
                            NewCall("upsertGameWithStatus", r.tasks[k].game),
                        !.issued.upserts = Inc(r.issued.upserts)]
         [] res = "new" /\ r.kind = "continuous" ->
              Notify([r EXCEPT !.newGames = Inc(r.newGames),
                               !.tasks[k].outcome = "new"], k)
         [] res = "new" ->
              end([r EXCEPT !.newGames = Inc(r.newGames)], "new")
         [] OTHER ->
              end([r EXCEPT !.updatedGames = Inc(r.updatedGames)], "updated")

\* a task that notifies of every entry the store took, new or not
AfterCall_NotifiesUpdates(r, k, res, cancelled) ==
    LET end(q, how) == TaskDone([q EXCEPT !.tasks[k].pc = "done",
                                          !.tasks[k].outcome = how], cancelled)
    IN CASE res \in {"ioerror", "constraint"} ->
              end([r EXCEPT !.errors = Inc(r.errors)], "error")
         [] res = "exists" ->
              end([r EXCEPT !.skippedGames = Inc(r.skippedGames)], "skipped")
         [] res = "absent" ->
              [r EXCEPT !.tasks[k].call =
                            NewCall("upsertGameWithStatus", r.tasks[k].game),
                        !.issued.upserts = Inc(r.issued.upserts)]
         [] res = "new" /\ r.kind = "continuous" ->
              Notify([r EXCEPT !.newGames = Inc(r.newGames),
                               !.tasks[k].outcome = "new"], k)
         [] res = "new" ->
              end([r EXCEPT !.newGames = Inc(r.newGames)], "new")
         [] r.kind = "continuous" ->
              Notify([r EXCEPT !.updatedGames = Inc(r.updatedGames),
                               !.tasks[k].outcome = "updated"], k)
         [] OTHER ->
              end([r EXCEPT !.updatedGames = Inc(r.updatedGames)], "updated")

\* a task that leaves a failed store call out of the error counter
AfterCall_ErrorsUncounted(r, k, res, cancelled) ==
    LET op == r.tasks[k].call.op
        end(q, how) == TaskDone([q EXCEPT !.tasks[k].pc = "done",
                                          !.tasks[k].outcome = how], cancelled)
    IN CASE res \in {"ioerror", "constraint"} -> end(r, "error")
         [] res = "exists" ->
              end([r EXCEPT !.skippedGames = Inc(r.skippedGames)], "skipped")
         [] res = "absent" ->
              [r EXCEPT !.tasks[k].call =
                            NewCall("upsertGameWithStatus", r.tasks[k].game),
                        !.issued.upserts = Inc(r.issued.upserts)]
         [] res = "new" /\ r.kind = "continuous" ->
              Notify([r EXCEPT !.newGames = Inc(r.newGames),
                               !.tasks[k].outcome = "new"], k)
         [] res = "new" ->
              end([r EXCEPT !.newGames = Inc(r.newGames)], "new")
         [] OTHER ->
              end([r EXCEPT !.updatedGames = Inc(r.updatedGames)], "updated")

\* the store call of task k settled with result res: the rest of the task's
\* function up to its next await or its return
AfterCall(r, k, res, cancelled) ==
    LET op == r.tasks[k].call.op
        end(q, how) == TaskDone([q EXCEPT !.tasks[k].pc = "done",
                                          !.tasks[k].outcome = how], cancelled)
    IN CASE res \in {"ioerror", "constraint"} ->
              end([r EXCEPT !.errors = Inc(r.errors)], "error")
         [] res = "exists" ->
              end([r EXCEPT !.skippedGames = Inc(r.skippedGames)], "skipped")
         [] res = "absent" ->
              [r EXCEPT !.tasks[k].call =
                            NewCall("upsertGameWithStatus", r.tasks[k].game),
                        !.issued.upserts = Inc(r.issued.upserts)]
         [] res = "new" /\ r.kind = "continuous" ->
              Notify([r EXCEPT !.newGames = Inc(r.newGames),
                               !.tasks[k].outcome = "new"], k)
         [] res = "new" ->
              end([r EXCEPT !.newGames = Inc(r.newGames)], "new")
         [] OTHER ->
              end([r EXCEPT !.updatedGames = Inc(r.updatedGames)], "updated")

(***************************************************************************)
(* The steps of a cycle, and the scheduler around the continuous cycle.     *)
(***************************************************************************)
\* the cancellation flag a cycle of this kind polls
Cancelled(kind) ==
    IF kind = "parse" THEN ~isParsing ELSE ~isContinuousSearchRunning

\* a cycle at its first letter; handleParseGames registers an async function
\* as the progress callback before it calls parseNewGames
NewRun(kind) ==
    [IdleRun EXCEPT !.kind = kind, !.i = 1,
                    !.callback = IF kind = "parse" THEN "async" ELSE "none"]

FreeRuns == {c \in RunIds : runs[c].pc = "idle"}

\* a cycle that arms the next-cycle timer only when it counted no error
Resume_ErrorsEndLoop(c, r2) ==
    /\ runs' = [runs EXCEPT ![c] = r2]
    /\ IF /\ r2.pc = "done" /\ r2.kind = "continuous"
          /\ isContinuousSearchRunning /\ r2.errors = 0
       THEN /\ timers' = timers \cup {c}
            /\ nextCycleTimeout' = c
       ELSE UNCHANGED <<timers, nextCycleTimeout>>
    /\ isParsing' = IF r2.pc = "done" /\ r2.kind = "parse" THEN FALSE
                    ELSE isParsing
    /\ UNCHANGED <<isContinuousSearchRunning, isStarting>>

\* a cycle whose completion arms the next-cycle timer whatever the flag says
Resume_AlwaysArms(c, r2) ==
    /\ runs' = [runs EXCEPT ![c] = r2]
    /\ IF r2.pc = "done" /\ r2.kind = "continuous"
       THEN /\ timers' = timers \cup {c}
            /\ nextCycleTimeout' = c
       ELSE UNCHANGED <<timers, nextCycleTimeout>>
    /\ isParsing' = IF r2.pc = "done" /\ r2.kind = "parse" THEN FALSE
                    ELSE isParsing
    /\ UNCHANGED <<isContinuousSearchRunning, isStarting>>

\* cycle c resumes and runs to r2.  When performContinuousSearch returns,
\* performContinuousSearchWithDelay arms the next-cycle timer unless the search
\* was stopped; when parseNewGames returns or throws, handleParseGames resets
\* the parsing state.
Resume(c, r2) ==
    /\ runs' = [runs EXCEPT ![c] = r2]
    /\ IF r2.pc = "done" /\ r2.kind = "continuous" /\ isContinuousSearchRunning
       THEN /\ timers' = timers \cup {c}
            /\ nextCycleTimeout' = c
       ELSE UNCHANGED <<timers, nextCycleTimeout>>
    /\ isParsing' = IF r2.pc = "done" /\ r2.kind = "parse" THEN FALSE
                    ELSE isParsing
    /\ UNCHANGED <<isContinuousSearchRunning, isStarting>>

\* the pages an upstream with games on pages 1..MaxDataPage only can show
Catalogue ==
    << [source_id |-> "A", title |-> "Foo", url |-> "u1"],
       [source_id |-> "B", title |-> "Foo", url |-> "u1"],
       [source_id |-> "B", title |-> "Bar", url |-> "u2"] >>

\* the batches a page can show: the first entries of the catalogue
Batches ==
    {SubSeq(Catalogue, 1, n) : n \in {m \in 1..MaxBatch : m <= Len(Catalogue)}}

FetchThrows == [throws |-> TRUE, games |-> <<>>]

FiniteUpstream(page) ==
    {FetchThrows, [throws |-> FALSE, games |-> <<>>]}
        \cup (IF page <= MaxDataPage
              THEN {[throws |-> FALSE, games |-> b] : b \in Batches}
              ELSE {})

\* an upstream that shows games on every page
EndlessUpstream(page) == {[throws |-> FALSE, games |-> <<Catalogue[1]>>]}

\* the fetch of the page settles
FetchSettles(c, res) ==
    /\ runs[c].pc = "fetch"
    /\ Resume(c, AfterFetch(runs[c], res.games, Cancelled(runs[c].kind)))
    /\ UNCHANGED <<storeVars, unitVars>>

\* the one-second pause of the continuous cycle ends
DelayElapses(c) ==
    /\ runs[c].pc = "delay"
    /\ Resume(c, StartBatch(runs[c], Cancelled(runs[c].kind)))
    /\ UNCHANGED <<storeVars, unitVars>>

\* the statement the store call of task k waits for executes
TaskStep(c, k, io) ==
    /\ runs[c].pc = "join"
    /\ k \in DOMAIN runs[c].tasks
    /\ runs[c].tasks[k].pc = "call"
    /\ \E s \in StoreStep(runs[c].tasks[k].call, db, io) :
          /\ db' = s.db
          /\ IF InFlight(s.call)
             THEN Resume(c, [runs[c] EXCEPT !.tasks[k].call = s.call])
             ELSE Resume(c, AfterCall([runs[c] EXCEPT !.tasks[k].call = s.call],
                                      k, s.call.result,
                                      Cancelled(runs[c].kind)))
    /\ UNCHANGED <<workers, finished, ncalls, unitVars>>

\* sendSingleGameNotification of task k returns (it catches what a send throws)
NotifySettles(c, k) ==
    /\ runs[c].pc = "join"
    /\ k \in DOMAIN runs[c].tasks
    /\ runs[c].tasks[k].pc = "notify"
    /\ Resume(c, TaskDone([runs[c] EXCEPT !.tasks[k].pc = "done"],
                          Cancelled(runs[c].kind)))
    /\ UNCHANGED <<storeVars, unitVars>>

\* getGameCount settles: parseNewGames makes its final updateProgress and
\* returns, or throws when the statement failed
CountReturns(c, io) ==
    /\ runs[c].pc = "count"
    /\ IF io = "ok"
       THEN Resume(c, [UpdateProgress(runs[c], NumLetters, 0, TRUE)
                          EXCEPT !.pc = "done"])
       ELSE Resume(c, [runs[c] EXCEPT !.pc = "done"])
    /\ UNCHANGED <<storeVars, unitVars>>

\* handleParseGames after bot.sendMessage: the parsing state is set again, then
\* initBrowser is awaited; a send that throws ends the handler in its catch
ParseMessageSent(c, ok) ==
    /\ runs[c].pc = "init"
    /\ runs' = [runs EXCEPT ![c].pc = IF ok THEN "browser" ELSE "done"]
    /\ isParsing' = ok
    /\ UNCHANGED <<isContinuousSearchRunning, isStarting, nextCycleTimeout,
                   timers>>
    /\ UNCHANGED <<storeVars, unitVars>>

\* handleParseGames after initBrowser: parseNewGames is called
ParseBrowserReady(c, ok) ==
    /\ runs[c].pc = "browser"
    /\ IF ok
       THEN Resume(c, EnterLetter([runs[c] EXCEPT !.i = 1], ~isParsing))
       ELSE Resume(c, [runs[c] EXCEPT !.pc = "done"])
    /\ UNCHANGED <<storeVars, unitVars>>

\* resetParsingState, as handleCancelParsing calls it
ResetParsingState ==
    /\ isParsing
    /\ isParsing' = FALSE
    /\ UNCHANGED <<runs, isContinuousSearchRunning, isStarting,
                   nextCycleTimeout, timers>>
    /\ UNCHANGED <<storeVars, unitVars>>

\* a startContinuousSearch without its guard
StartContinuousSearch_Unguarded(c) ==
    /\ c \in FreeRuns /\ \A d \in FreeRuns : c <= d
    /\ isContinuousSearchRunning' = TRUE
    /\ isStarting' = FALSE
    /\ runs' = [runs EXCEPT ![c] = EnterLetter(NewRun("continuous"), FALSE)]
    /\ UNCHANGED <<isParsing, nextCycleTimeout, timers>>
    /\ UNCHANGED <<storeVars, unitVars>>

\* startContinuousSearch: it returns at once when the search is running or
\* starting; else it runs up to the first await of the cycle it starts (c is
\* the cycle started)
StartContinuousSearch(c) ==
    IF isContinuousSearchRunning \/ isStarting
    THEN c = 1 /\ UNCHANGED vars
    ELSE /\ c \in FreeRuns /\ \A d \in FreeRuns : c <= d
         /\ isContinuousSearchRunning' = TRUE
         /\ isStarting' = FALSE
         /\ runs' = [runs EXCEPT ![c] =
                        EnterLetter(NewRun("continuous"), FALSE)]
         /\ UNCHANGED <<isParsing, nextCycleTimeout, timers>>
         /\ UNCHANGED <<storeVars, unitVars>>

\* stopContinuousSearch
StopContinuousSearch ==
    /\ isContinuousSearchRunning
    /\ isContinuousSearchRunning' = FALSE
    /\ timers' = timers \ {nextCycleTimeout}
    /\ nextCycleTimeout' = 0
    /\ UNCHANGED <<runs, isStarting, isParsing>>
    /\ UNCHANGED <<storeVars, unitVars>>

\* the callback of next-cycle timer t
TimerFires(t, c) ==
    /\ t \in timers
    /\ timers' = timers \ {t}
    /\ IF isContinuousSearchRunning
       THEN /\ c \in FreeRuns /\ \A d \in FreeRuns : c <= d
            /\ runs' = [runs EXCEPT ![c] =
                           EnterLetter(NewRun("continuous"), FALSE)]
       ELSE /\ c = t
            /\ UNCHANGED runs
    /\ UNCHANGED <<isContinuousSearchRunning, isStarting, isParsing,
                   nextCycleTimeout>>
    /\ UNCHANGED <<storeVars, unitVars>>

(***************************************************************************)
(* SpecCycle: one cycle of either kind, from the moment it was started, and *)
(* the user who may cancel it.                                              *)
(***************************************************************************)
CycleSeeds == {EmptyDb, InsertRow(EmptyDb, Catalogue[1])}

InitCycle ==
    /\ db \in CycleSeeds
    /\ workers = [w \in Workers |-> IdleWorker]
    /\ finished = <<>>
    /\ ncalls = 0
    /\ isStarting = FALSE
    /\ nextCycleTimeout = 0
    /\ timers = {}
    /\ client = IdleClient
    /\ notifier = IdleNotifier
    /\ access = NoAccess
    /\ \E kind \in {"continuous", "parse"} :
          /\ isContinuousSearchRunning = (kind = "continuous")
          /\ isParsing = (kind = "parse")
          /\ runs = [c \in RunIds |->
                        IF c # 1 THEN IdleRun
                        ELSE IF kind = "parse"
                        THEN [NewRun("parse") EXCEPT !.pc = "init"]
                        ELSE EnterLetter(NewRun("continuous"), FALSE)]

NextCycle ==
    \/ \E res \in FiniteUpstream(runs[1].page) : FetchSettles(1, res)
    \/ DelayElapses(1)
    \/ \E k \in 1..MaxBatch, io \in IoOutcomes : TaskStep(1, k, io)
    \/ \E k \in 1..MaxBatch : NotifySettles(1, k)
    \/ \E io \in IoOutcomes : CountReturns(1, io)
    \/ \E ok \in BOOLEAN : ParseMessageSent(1, ok)
    \/ \E ok \in BOOLEAN : ParseBrowserReady(1, ok)
    \/ ResetParsingState
    \/ StopContinuousSearch

SpecCycle == InitCycle /\ [][NextCycle]_vars

(***************************************************************************)
(* SpecPool: one cycle of either kind over an upstream whose first page     *)
(* shows one entry more than the pool runs at a time.                       *)
(***************************************************************************)
\* a page of CONCURRENCY + 1 entries
WideBatch ==
    [k \in 1..(CONCURRENCY + 1) |->
        IF k <= Len(Catalogue) THEN Catalogue[k]
        ELSE [source_id |-> "A", title |-> "Bar", url |-> "u2"]]

\* an upstream that shows the wide page as page 1 of the first letter only
WideUpstream(i, page) ==
    {FetchThrows, [throws |-> FALSE, games |-> <<>>]}
        \cup (IF i = 1 /\ page = 1
              THEN {[throws |-> FALSE, games |-> WideBatch]}
              ELSE {})

NextPool ==
    \/ \E res \in WideUpstream(runs[1].i, runs[1].page) : FetchSettles(1, res)
    \/ \E k \in 1..(CONCURRENCY + 1), io \in IoOutcomes : TaskStep(1, k, io)
    \/ \E k \in 1..(CONCURRENCY + 1) : NotifySettles(1, k)
    \/ \E io \in IoOutcomes : CountReturns(1, io)
    \/ \E ok \in BOOLEAN : ParseMessageSent(1, ok)
    \/ \E ok \in BOOLEAN : ParseBrowserReady(1, ok)
    \/ ResetParsingState
    \/ StopContinuousSearch

SpecPool == InitCycle /\ [][NextPool]_vars

(***************************************************************************)
(* Spec: the continuous-search scheduler, from the module's initial state:  *)
(* the user starts and stops the search, next-cycle timers fire, and the    *)
(* cycles started take their steps.                                         *)
(***************************************************************************)
\* an upstream that shows one entry a page, on pages 1..MaxDataPage of the
\* first letter only
SparseUpstream(i, page) ==
    {FetchThrows, [throws |-> FALSE, games |-> <<>>]}
        \cup (IF i = 1 /\ page <= MaxDataPage
              THEN {[throws |-> FALSE, games |-> <<Catalogue[1]>>]}
              ELSE {})

Init ==
    /\ db = EmptyDb
    /\ workers = [w \in Workers |-> IdleWorker]
    /\ finished = <<>>
    /\ ncalls = 0
    /\ runs = [c \in RunIds |-> IdleRun]
    /\ isContinuousSearchRunning = FALSE
    /\ isStarting = FALSE
    /\ isParsing = FALSE
    /\ nextCycleTimeout = 0
    /\ timers = {}
    /\ client = IdleClient
    /\ notifier = IdleNotifier
    /\ access = NoAccess

Next ==
    \/ \E c \in RunIds : StartContinuousSearch(c)
    \/ StopContinuousSearch
    \/ \E t \in RunIds, c \in RunIds : TimerFires(t, c)
    \/ \E c \in RunIds : \E res \in SparseUpstream(runs[c].i, runs[c].page) :
          FetchSettles(c, res)
    \/ \E c \in RunIds : DelayElapses(c)
    \/ \E c \in RunIds, k \in 1..MaxBatch, io \in IoOutcomes : TaskStep(c, k, io)
    \/ \E c \in RunIds, k \in 1..MaxBatch : NotifySettles(c, k)

Spec == Init /\ [][Next]_vars

(***************************************************************************)
(* SpecLoop: the scheduler when stopContinuousSearch is never called.       *)
(* Every await of a cycle settles and an armed timer fires: a step of the   *)
(* scheduler is taken whenever one is pending.                              *)
(***************************************************************************)
NextLoop ==
    \/ \E c \in RunIds : StartContinuousSearch(c)
    \/ \E t \in RunIds, c \in RunIds : TimerFires(t, c)
    \/ \E c \in RunIds : \E res \in SparseUpstream(runs[c].i, runs[c].page) :
          FetchSettles(c, res)
    \/ \E c \in RunIds : DelayElapses(c)
    \/ \E c \in RunIds, k \in 1..MaxBatch, io \in IoOutcomes : TaskStep(c, k, io)
    \/ \E c \in RunIds, k \in 1..MaxBatch : NotifySettles(c, k)

SpecLoop == Init /\ [][NextLoop]_vars /\ WF_vars(NextLoop)

(***************************************************************************)
(* SpecEndless: one continuous cycle over an upstream that shows games on   *)
(* every page.  Every await of the cycle settles: the step that resumes the *)
(* cycle is taken whenever one is pending.                                  *)
(***************************************************************************)
InitEndless ==
    /\ db = EmptyDb
    /\ workers = [w \in Workers |-> IdleWorker]
    /\ finished = <<>>
    /\ ncalls = 0
    /\ runs = [c \in RunIds |->
                  IF c = 1 THEN EnterLetter(NewRun("continuous"), FALSE)
                  ELSE IdleRun]
    /\ isContinuousSearchRunning = TRUE
    /\ isStarting = FALSE
    /\ isParsing = FALSE
    /\ nextCycleTimeout = 0
    /\ timers = {}
    /\ client = IdleClient
    /\ notifier = IdleNotifier
    /\ access = NoAccess

NextEndless ==
    \/ \E res \in EndlessUpstream(runs[1].page) : FetchSettles(1, res)
    \/ DelayElapses(1)
    \/ \E k \in 1..MaxBatch, io \in IoOutcomes : TaskStep(1, k, io)
    \/ \E k \in 1..MaxBatch : NotifySettles(1, k)

SpecEndless == InitEndless /\ [][NextEndless]_vars /\ WF_vars(NextEndless)

(***************************************************************************)
(* Claims about the page walk, checked under SpecCycle and SpecEndless.     *)
(***************************************************************************)
Walking(r) == r.pc \in {"fetch", "delay", "join"}

InFlightRun(r) == r.pc \notin {"idle", "done"}

\* the n-th page result is the third of three consecutive empty pages
ThirdEmpty(sizes, n) ==
    n >= 3 /\ n <= Len(sizes) /\ \A j \in (n - 2)..n : sizes[j] = 0

\* the empty pages at the end of the page results
RECURSIVE Streak(_)
Streak(sizes) ==
    IF Len(sizes) = 0 \/ sizes[Len(sizes)] # 0 THEN 0
    ELSE 1 + Streak(SubSeq(sizes, 1, Len(sizes) - 1))

\* C7: the walk of a letter stops exactly when the empty-page streak reaches
\* 3.  A walk that ended on the streak fetched, as its last page, the third of
\* three consecutive empty pages, and three consecutive empty pages occur
\* nowhere before; a walk still going has not seen three consecutive empty
\* pages; the streak counter is the number of empty pages at the end of the
\* results, so a non-empty page resets it to 0; and a walk ends in no other way
\* than on the streak or on the cancellation flag.
C7_WalkStopsAtStreak ==
    \A c \in RunIds :
        LET r == runs[c]
            w == r.lastWalk
        IN /\ w.reason = "streak" =>
                /\ Len(w.sizes) = Len(w.fetched)
                /\ ThirdEmpty(w.sizes, Len(w.sizes))
                /\ \A n \in 1..(Len(w.sizes) - 1) : ~ThirdEmpty(w.sizes, n)
           /\ Walking(r) =>
                /\ \A n \in 1..Len(r.sizes) : ~ThirdEmpty(r.sizes, n)
                /\ r.emptyPagesCount = Streak(r.sizes)
                /\ r.emptyPagesCount < maxEmptyPages
           /\ w.reason \in {"none", "streak", "cancel"}
           /\ w.reason = "cancel" => Cancelled(r.kind)

\* a walk that ended on the streak after an empty page, a page with games and
\* three more empty pages
C7_Witness ==
    \E c \in RunIds :
        LET w == runs[c].lastWalk
        IN /\ w.reason = "streak"
           /\ Len(w.sizes) = 5
           /\ w.sizes[1] = 0 /\ w.sizes[2] > 0

\* the first letter's walk ends
WalkEnds == runs[1].lastWalk.i >= 1

\* C8: the walk of a letter is finite, whatever the upstream returns: over an
\* upstream that shows games on every page, the walk of the first letter
\* eventually ends.
C8_WalkTerminates == <>WalkEnds

\* the page numbers are 1, 2, 3, ... in this order
Sequential(fetched) == \A j \in DOMAIN fetched : fetched[j] = j

\* C9: within one walk the pages fetched are exactly 1, 2, 3, ... in
\* increasing order, with no repeat and no gap, in the walk going on and in the
\* walk that ended; the fetch in flight is that of the current page.
C9_PagesSequential ==
    \A c \in RunIds :
        LET r == runs[c]
        IN /\ Sequential(r.lastWalk.fetched)
           /\ Walking(r) =>
                /\ Sequential(r.fetched)
                /\ r.page = Len(r.fetched)
                /\ r.kind = "parse" => r.processedPages = 1..r.page

\* a parse walk that went past a page with games and ended on its fifth page
C9_Witness ==
    \E c \in RunIds :
        LET w == runs[c].lastWalk
        IN /\ runs[c].kind = "parse"
           /\ w.reason = "streak"
           /\ w.fetched = <<1, 2, 3, 4, 5>>
           /\ w.sizes[2] > 0

\* C10: once the cancellation flag of a cycle in flight is set and stays set,
\* the cycle enters no further letter and issues no further page fetch and no
\* further upsert call.
C10_NothingStartedAfterCancel ==
    [][\A c \in RunIds :
          (/\ InFlightRun(runs[c])
           /\ Cancelled(runs[c].kind)
           /\ IF runs[c].kind = "parse" THEN ~isParsing'
              ELSE ~isContinuousSearchRunning')
          => runs'[c].issued = runs[c].issued]_vars

\* C11: when a parse cycle was cancelled while it walked a letter, the final
\* progress snapshot carries that letter's index, the last letter attempted.
C11_FinalPositionIsLastKey ==
    \A c \in RunIds :
        LET r == runs[c]
        IN (/\ r.kind = "parse" /\ r.pc = "done"
            /\ r.progress.isComplete
            /\ r.lastWalk.reason = "cancel")
           => r.progress.letterIndex = r.lastWalk.i

\* the letter loop of the cycle is over and its flag was never found set
CompletedUncancelled(r) ==
    \/ r.kind = "continuous" /\ r.pc = "done" /\ isContinuousSearchRunning
    \/ r.kind = "parse" /\ r.pc = "count" /\ isParsing

\* C12: in a cycle that is not cancelled every letter is walked exactly once,
\* in the order of the alphabet, whatever fetches or store calls fail: the
\* walk going on is that of letter number (letters entered so far), the walk
\* ended before it is that of the letter before, and when the letter loop is
\* over all NumLetters letters were entered and the last walk, of the last
\* letter, ended on the empty-page streak.
C12_EveryKeyWalkedInOrder ==
    \A c \in RunIds :
        LET r == runs[c]
        IN /\ Walking(r) =>
                /\ r.i \in 1..NumLetters
                /\ r.issued.keys = r.i
                /\ r.lastWalk.i = r.i - 1
           /\ CompletedUncancelled(r) =>
                /\ r.issued.keys = NumLetters
                /\ r.lastWalk.i = NumLetters
                /\ r.lastWalk.reason = "streak"

\* an uncancelled cycle that counted a failed entry and still walked the last
\* letter
C12_Witness ==
    \E c \in RunIds :
        /\ CompletedUncancelled(runs[c])
        /\ runs[c].errors > 0
        /\ runs[c].lastWalk.i = NumLetters

\* C13: when the fetch of a page throws (the fetch client has exhausted its
\* retries) in a cycle that is not cancelled, the cycle's error counter grows
\* by one and the cycle goes on to the next letter.
C13_FetchFailureCountedKeyLeft ==
    [][\A c \in RunIds :
          (FetchSettles(c, FetchThrows) /\ ~Cancelled(runs[c].kind))
          => /\ runs'[c].errors = runs[c].errors + 1
             /\ \/ runs'[c].i = runs[c].i + 1
                \/ runs'[c].pc \in {"count", "done"}]_vars

\* the step is the one in which the store call of task k of cycle c fails
CallFails(c, k) ==
    \E io \in IoOutcomes :
        /\ TaskStep(c, k, io)
        /\ \E s \in StoreStep(runs[c].tasks[k].call, db, io) :
              /\ s.db = db'
              /\ s.call.result \in {"ioerror", "constraint"}

\* C14: in a cycle that is not cancelled, a store call that fails for one
\* entry of a batch adds exactly one to the error counter and leaves every
\* other entry of the batch as it is (or starts it, if it was queued); while
\* another entry is unfinished the join goes on, and when the failed entry was
\* the last one the walk goes on with the fetch of the next page of the letter.
C14_FailedEntryLeavesSiblings ==
    [][\A c \in RunIds : \A k \in 1..MaxBatch :
          (CallFails(c, k) /\ ~Cancelled(runs[c].kind))
          => LET r == runs[c]
                 others == DOMAIN r.tasks \ {k}
             IN /\ runs'[c].errors = r.errors + 1
                /\ runs'[c].i = r.i
                /\ IF \A j \in others : r.tasks[j].pc = "done"
                   THEN /\ runs'[c].pc = "fetch"
                        /\ runs'[c].page = r.page + 1
                   ELSE /\ runs'[c].pc = "join"
                        /\ runs'[c].page = r.page
                        /\ \A j \in others :
                              \/ runs'[c].tasks[j] = r.tasks[j]
                              \/ /\ r.tasks[j].pc = "queued"
                                 /\ runs'[c].tasks[j].pc = "call"]_vars

\* a batch in which one entry failed and the upsert of another went through
C14_Witness ==
    \E c \in RunIds :
        /\ runs[c].pc = "join"
        /\ \E j, k \in DOMAIN runs[c].tasks :
              /\ runs[c].tasks[j].outcome = "error"
              /\ runs[c].tasks[k].outcome = "new"
              /\ \E row \in db.games :
                    row.source_id = runs[c].tasks[k].game.source_id

\* C15: at every moment of a cycle at most CONCURRENCY of its entry tasks are
\* in flight (started and not returned), whatever the size of the page.
C15_PoolWidthRespected ==
    \A c \in RunIds : Cardinality(Active(runs[c])) <= CONCURRENCY

\* the pool is full and an entry of the page waits for a place
C15_Witness ==
    \E c \in RunIds :
        /\ Cardinality(Active(runs[c])) = CONCURRENCY
        /\ Queued(runs[c]) # {}

\* the entry tasks of the batch that have not returned
Unfinished(r) == {k \in DOMAIN r.tasks : r.tasks[k].pc # "done"}

\* C16: within one cycle at most one page fetch is in flight: while a fetch
\* is awaited every earlier fetch of the walk has settled, and at any other
\* moment of the walk all have.  And a step that issues a fetch finds no entry
\* task of the cycle unfinished, but for the one that returns in that step.
C16_FetchAfterJoin ==
    /\ [](\A c \in RunIds :
            Walking(runs[c]) =>
                Len(runs[c].fetched) - Len(runs[c].sizes)
                    = IF runs[c].pc = "fetch" THEN 1 ELSE 0)
    /\ [][\A c \in RunIds :
            runs'[c].issued.fetches # runs[c].issued.fetches
            => /\ Cardinality(Unfinished(runs[c])) <= 1
               /\ \A k \in Unfinished(runs[c]) :
                     runs[c].pc = "join" /\ k \in Active(runs[c])]_vars

\* the fetch of page 2 is in flight after the two entries of page 1 were
\* processed
C16_Witness ==
    \E c \in RunIds :
        /\ runs[c].pc = "fetch"
        /\ runs[c].fetched = <<1, 2>>
        /\ runs[c].sizes = <<2>>
        /\ runs[c].newGames + runs[c].updatedGames + runs[c].skippedGames
              + runs[c].errors = 2

(***************************************************************************)
(* Claims about the scheduler, checked under Spec.                          *)
(***************************************************************************)
\* the cycles started and not returned
CyclesInFlight == {c \in RunIds : InFlightRun(runs[c])}

\* the cycles started so far
Started == {c \in RunIds : runs[c].pc # "idle"}

\* C17: from stopContinuousSearch to the next startContinuousSearch, that is
\* in every step that ends with the search not running, no cycle is started
\* and no next-cycle timer is armed, whether the step is the stop itself, a
\* step or the completion of a cycle in flight, or a timer firing.
C17_NoCycleWhileStopped ==
    [][~isContinuousSearchRunning'
          => /\ {c \in RunIds : runs'[c].pc # "idle"} = Started
             /\ timers' \subseteq timers]_vars

\* the search is stopped, the cycle that was in flight saw the flag and
\* returned, and a further cycle could be started
C17_Witness ==
    /\ ~isContinuousSearchRunning
    /\ timers = {}
    /\ FreeRuns # {}
    /\ \E c \in RunIds :
          runs[c].pc = "done" /\ runs[c].lastWalk.reason = "cancel"

\* C18: startContinuousSearch called while the search is running or starting
\* changes none of the run-state variables (the flags, the timer handle, the
\* timers armed) and starts no cycle.
C18_StartWhileRunningIsNoOp ==
    [][\A c \in RunIds :
          ((isContinuousSearchRunning \/ isStarting) /\ StartContinuousSearch(c))
          => UNCHANGED runVars]_vars

\* the search runs with one cycle in flight, and a second cycle could be
\* started by a second call
C18_Witness ==
    /\ isContinuousSearchRunning
    /\ Cardinality(CyclesInFlight) = 1
    /\ Cardinality(Started) = 1
    /\ FreeRuns # {}

\* C19: a next-cycle timer is armed only after the cycle before it has
\* completed: in no reachable state is a next-cycle timer pending while a
\* cycle is in flight.
C19_NoTimerWhileCycleInFlight == ~(timers # {} /\ CyclesInFlight # {})

\* C20: while the search runs and stopContinuousSearch is never called,
\* every cycle that completes, with or without errors counted, is followed by
\* the start of the next cycle (for as many cycles as the model follows).
C20_CompletionLeadsToNextCycle ==
    \A c \in 1..(MaxRuns - 1) :
        (runs[c].pc = "done") ~> (runs[c + 1].pc # "idle")

\* a cycle that counted an error completed, and the next cycle was started
C20_Witness ==
    \E c \in 1..(MaxRuns - 1) :
        /\ runs[c].pc = "done"
        /\ runs[c].errors > 0
        /\ runs[c + 1].pc # "idle"
        /\ isContinuousSearchRunning

\* C1: under every interleaving of startContinuousSearch,
\* stopContinuousSearch, cycle steps and timer firings, at most one crawl
\* cycle is in flight.
C1_AtMostOneCycle == Cardinality(CyclesInFlight) <= 1

(***************************************************************************)
(* Claims about the store, checked under SpecStore.                        *)
(***************************************************************************)
Matches(rows, g) == {r \in rows : r.title = g.title /\ r.url = g.url}

Holders(rows, g) == {r \in rows : r.source_id = g.source_id}

Resolved(c) == c.result \in {"new", "updated"}

\* a call that no other call overlapped
Solo(c) == c.seen = {}

\* C2: two upsertGameWithStatus calls for the same (title, url) that overlap
\* and both resolve, on a table with at most one record of that (title, url),
\* leave exactly one record of it.
C2_RacingUpsertsLeaveOneRecord ==
    Len(finished) = 2 =>
        LET a == finished[1]
            b == finished[2]
        IN (/\ a.op = "upsertGameWithStatus" /\ b.op = "upsertGameWithStatus"
            /\ a.game.title = b.game.title /\ a.game.url = b.game.url
            /\ b.n \in a.seen /\ a.seen = {b.n} /\ b.seen = {a.n}
            /\ Resolved(a) /\ Resolved(b)
            /\ Cardinality(Matches(a.pre, a.game)) <= 1
            /\ Cardinality(Matches(b.pre, a.game)) <= 1)
           => Cardinality(Matches(b.post, a.game)) = 1

\* C3: the same entry upserted twice in sequence, into a table with no record
\* of it under either matching rule, is new the first time and not new the
\* second, and the table then holds exactly one record of it.
C3_Idempotence ==
    Len(finished) = 2 =>
        LET a == finished[1]
            b == finished[2]
        IN (/\ a.op = "upsertGameWithStatus" /\ b.op = "upsertGameWithStatus"
            /\ a.game = b.game /\ Solo(a) /\ Solo(b) /\ a.post = b.pre
            /\ Matches(a.pre, a.game) = {} /\ Holders(a.pre, a.game) = {}
            /\ a.result # "ioerror" /\ b.result # "ioerror")
           => /\ a.result = "new"
              /\ b.result = "updated"
              /\ Cardinality(Matches(b.post, a.game)) = 1
              /\ Holders(b.post, a.game) = Matches(b.post, a.game)

C3_Witness ==
    /\ Len(finished) = 2
    /\ finished[1].op = "upsertGameWithStatus"
    /\ finished[2].op = "upsertGameWithStatus"
    /\ finished[1].game = finished[2].game
    /\ Solo(finished[1]) /\ Solo(finished[2])
    /\ finished[1].post = finished[2].pre
    /\ Matches(finished[1].pre, finished[1].game) = {}
    /\ Holders(finished[1].pre, finished[1].game) = {}
    /\ finished[1].pre # {}
    /\ finished[1].result = "new"
    /\ finished[2].result = "updated"

\* C4: an upsertGameWithStatus call made when one record of the table has the
\* entry's (title, url), under another identity, and not failed by the store
\* engine, rewrites that record's identity to the entry's, keeps its title and
\* url, adds no row and is not new.
C4_ChurnHealing ==
    \A k \in 1..Len(finished) :
        LET c == finished[k]
            old == Matches(c.pre, c.game)
        IN (/\ c.op = "upsertGameWithStatus" /\ Solo(c)
            /\ c.result # "ioerror"
            /\ Cardinality(Matches(c.pre, c.game)) = 1
            /\ \E r \in Matches(c.pre, c.game) : r.source_id # c.game.source_id)
           => /\ c.result = "updated"
              /\ Cardinality(c.post) = Cardinality(c.pre)
              /\ \A r \in old :
                    \E q \in c.post :
                        /\ q.id = r.id /\ q.source_id = c.game.source_id
                        /\ q.title = r.title /\ q.url = r.url

\* C5: an upsertGameWithStatus call that no other call overlaps and the store
\* engine does not fail is new exactly when the table held no record of the
\* entry by (title, url) and none by identity, and a row is added exactly then.
C5_NewIffNoMatch ==
    \A k \in 1..Len(finished) :
        LET c == finished[k]
            nomatch == Matches(c.pre, c.game) = {} /\ Holders(c.pre, c.game) = {}
        IN (c.op = "upsertGameWithStatus" /\ Solo(c) /\ c.result # "ioerror")
           => /\ (c.result = "new") <=> nomatch
              /\ (Cardinality(c.post) = Cardinality(c.pre) + 1) <=> nomatch
              /\ ~nomatch => Cardinality(c.post) = Cardinality(c.pre)

C5_Witness ==
    /\ Len(finished) = 2
    /\ \A k \in 1..2 : finished[k].op = "upsertGameWithStatus" /\ Solo(finished[k])
    /\ finished[1].result = "new"
    /\ finished[2].result = "updated"
    /\ Matches(finished[2].pre, finished[2].game) = {}
    /\ Holders(finished[2].pre, finished[2].game) # {}

\* C6: no two records of the table share a source_id.
C6_IdentityUnique ==
    \A r, q \in db.games : r.source_id = q.source_id => r = q

C6_Witness ==
    /\ Cardinality(db.games) = 2
    /\ \E k \in 1..Len(finished) :
          finished[k].result = "constraint" /\ ~Solo(finished[k])
    /\ \E k \in 1..Len(finished) : finished[k].op = "upsertGame"

(***************************************************************************)
(* The fetch client: fetchGamesByLetter / fetchGamesByLetterPage.  A       *)
(* string is the sequence of its pieces: "" is <<>>, and concatenation is  *)
(* \o.  A page, once rendered, shows the same anchors to each extraction.  *)
(***************************************************************************)
maxRetries == 3

Null == <<"null">>
Blank == " "
Site == <<"https://rotrends.com">>
GamesPath == <<"/games/">>
Digits == {"1", "2"}

\* a ?? b
Coalesce(a, b) == IF a = Null THEN b ELSE a

\* the value as a condition: a string is true unless it is empty
Truthy(s) == s # Null /\ Len(s) > 0

\* a || b
OrElse(a, b) == IF Truthy(a) THEN a ELSE b

RECURSIVE TrimStart(_)
TrimStart(s) ==
    IF Len(s) > 0 /\ Head(s) = Blank THEN TrimStart(Tail(s)) ELSE s

RECURSIVE TrimEnd(_)
TrimEnd(s) ==
    IF Len(s) > 0 /\ s[Len(s)] = Blank
    THEN TrimEnd(SubSeq(s, 1, Len(s) - 1))
    ELSE s

\* String.prototype.trim
Trim(s) == TrimEnd(TrimStart(s))

\* href.startsWith('http')
StartsWithHttp(href) == Len(href) > 0 /\ Head(href) = "http://"

AbsoluteUrl(href) == IF StartsWithHttp(href) THEN href ELSE Site \o href

\* url.match(/\/(?:games|game)\/(\d+)/): the digits after the first
\* /games/ or /game/ that digits follow, or the whole url
normalizeSourceIdFromUrl(url) ==
    LET at == {i \in 1..(Len(url) - 1) :
                  url[i] \in {"/games/", "/game/"} /\ url[i + 1] \in Digits}
    IN  IF at = {} THEN url
        ELSE <<url[(CHOOSE i \in at : \A j \in at : i <= j) + 1]>>

\* the anchors a[href^="/games/"], a[href^="/game/"] of the rendered page
GameAnchor(a) ==
    a.href # Null /\ Len(a.href) > 0 /\ Head(a.href) \in {"/games/", "/game/"}

\* what the page function of extractGamesFromDom makes of one anchor
DomItem(a) ==
    LET href == OrElse(a.href, <<>>)
        title == OrElse(OrElse(a.title, <<>>), Trim(a.text))
    IN  [source_id |-> normalizeSourceIdFromUrl(AbsoluteUrl(href)),
         title |-> title,
         url |-> AbsoluteUrl(href)]

KeepDomItem_Any(g) == TRUE

KeepDomItem(g) == Truthy(g.title) /\ Truthy(g.url)

extractGamesFromDom(dom) ==
    LET anchors == SelectSeq(dom, GameAnchor)
        items == [i \in 1..Len(anchors) |-> DomItem(anchors[i])]
    IN  SelectSeq(items, KeepDomItem)

\* the elements [data-game-id], a[href*="/games/"] of the markup, each as the
\* anchor parseGamesFromHtml takes of it: href is Null where it has none
KeepElement(a) ==
    /\ Truthy(a.href)
    /\ Truthy(OrElse(a.title, Trim(a.text)))
    /\ Truthy(normalizeSourceIdFromUrl(AbsoluteUrl(a.href)))

parseGamesFromHtml(html) ==
    LET kept == SelectSeq(html, KeepElement)
    IN  [i \in 1..Len(kept) |->
            [source_id |-> normalizeSourceIdFromUrl(AbsoluteUrl(kept[i].href)),
             title |-> OrElse(kept[i].title, Trim(kept[i].text)),
             url |-> AbsoluteUrl(kept[i].href)]]

\* the entry the fetch client maps an item of data.games to
JsonItem(g, domGames) ==
    LET gameId == Coalesce(g.game_id, <<>>)
        found == {i \in 1..Len(domGames) : domGames[i].source_id = gameId}
        domUrl == IF found = {} THEN <<>>
                  ELSE domGames[CHOOSE i \in found : \A j \in found : i <= j].url
    IN  [source_id |-> Coalesce(g.place_id, gameId),
         title |-> Coalesce(g.game_name, <<>>),
         url |-> OrElse(domUrl, Site \o GamesPath \o gameId)]

KeepJsonItem(g) == Truthy(g.source_id) /\ Truthy(g.title) /\ Truthy(g.url)

\* the entries reconciled from data.games and the anchors of the DOM
Mapped(json, domGames) ==
    SelectSeq([i \in 1..Len(json) |-> JsonItem(json[i], domGames)], KeepJsonItem)

\* the anchors and the items a page can show
Anchors ==
    {[href |-> <<"/games/", "1">>, title |-> <<"Foo">>, text |-> <<Blank>>],
     [href |-> <<"/games/", "2">>, title |-> Null,
      text |-> <<Blank, "Bar", Blank>>],
     [href |-> <<"/games/", "2">>, title |-> Null, text |-> <<Blank>>],
     [href |-> Null, title |-> <<"Foo">>, text |-> <<>>]}

JsonItems ==
    {[place_id |-> <<"A">>, game_id |-> <<"1">>, game_name |-> <<"Foo">>],
     [place_id |-> Null, game_id |-> <<"2">>, game_name |-> <<>>],
     [place_id |-> Null, game_id |-> Null, game_name |-> <<"Bar">>]}

\* the lists of at most MaxItems of them
ListsOf(S) == UNION {[1..n -> S] : n \in 0..MaxItems}

\* a rendered page: whether a JSON response with data.games was seen and its
\* items, the anchors of the DOM, and the elements of the markup served
Pages ==
    [hasJson : BOOLEAN, json : ListsOf(JsonItems), dom : ListsOf(Anchors),
     html : ListsOf(Anchors)]

\* one call of the fetch client.  pc names what it awaits: "newPage",
\* "render" (goto and the reads of the page), "close" (the close of the
\* try block before a retry or before the return), "catch" (the close of
\* the catch block), "sleep" (the pause before a retry), or how it ended:
\* "returned", "thrown".  acquired and released count the contexts newPage
\* made and the contexts closed; outcomes is what each attempt came to, and
\* found what each strategy yields on the page rendered last
NewFetch(fn) ==
    [pc |-> "newPage", fn |-> fn, retryCount |-> 0, games |-> <<>>,
     retry |-> FALSE, acquired |-> 0, released |-> 0, outcomes |-> <<>>,
     via |-> "none", found |-> [json |-> <<>>, dom |-> <<>>, html |-> <<>>]]

\* what the strategies yield on a page: the entries reconciled from the JSON
\* response, the entries of the DOM, the entries of the markup
Found(page) ==
    [json |-> IF page.hasJson
              THEN Mapped(page.json, extractGamesFromDom(page.dom)) ELSE <<>>,
     dom |-> extractGamesFromDom(page.dom),
     html |-> parseGamesFromHtml(page.html)]

\* await newPage(), outside the try block: what it throws leaves the call
NewPageSettles(ok) ==
    /\ client.pc = "newPage"
    /\ client' = IF ok THEN [client EXCEPT !.pc = "render",
                                           !.acquired = @ + 1]
                 ELSE [client EXCEPT !.pc = "thrown"]
    /\ UNCHANGED <<storeVars, runVars, notifier, access>>

\* goto or a read of the page throws: the catch block closes the context
RenderThrows ==
    /\ client.pc = "render"
    /\ client' = [client EXCEPT !.pc = "catch",
                                !.outcomes = Append(@, "error")]
    /\ UNCHANGED <<storeVars, runVars, notifier, access>>

\* the page rendered: the entries reconciled from the JSON response are
\* returned at once; otherwise the entries of the DOM, or of the markup when
\* the DOM has none, are returned after the close, or the attempt is retried
Rendered_AlwaysRetries(page) ==
    LET domGames == extractGamesFromDom(page.dom)
        mapped == IF page.hasJson THEN Mapped(page.json, domGames) ELSE <<>>
        games == IF Len(domGames) > 0 THEN domGames
                 ELSE parseGamesFromHtml(page.html)
    IN  IF Len(mapped) > 0
        THEN [client EXCEPT !.pc = "returned", !.games = mapped,
                            !.via = "json",
                            !.outcomes = Append(@, "games")]
        ELSE IF Len(games) = 0
        THEN [client EXCEPT !.pc = "close", !.retry = TRUE,
                            !.retryCount = @ + 1,
                            !.outcomes = Append(@, "empty")]
        ELSE [client EXCEPT !.pc = "close", !.retry = FALSE,
                            !.games = games,
                            !.via = IF Len(domGames) > 0 THEN "dom"
                                    ELSE "html",
                            !.outcomes = Append(@, "games")]

\* a page whose markup is parsed ahead of its DOM
Rendered_MarkupFirst(page) ==
    LET domGames == extractGamesFromDom(page.dom)
        mapped == IF page.hasJson THEN Mapped(page.json, domGames) ELSE <<>>
        games == IF Len(parseGamesFromHtml(page.html)) > 0
                 THEN parseGamesFromHtml(page.html)
                 ELSE domGames
    IN  IF Len(mapped) > 0
        THEN [client EXCEPT !.pc = "returned", !.games = mapped,
                            !.via = "json",
                            !.outcomes = Append(@, "games")]
        ELSE IF Len(games) = 0 /\ client.retryCount < maxRetries - 1
        THEN [client EXCEPT !.pc = "close", !.retry = TRUE,
                            !.retryCount = @ + 1,
                            !.outcomes = Append(@, "empty")]
        ELSE [client EXCEPT !.pc = "close", !.retry = FALSE,
                            !.games = games,
                            !.via = IF Len(games) = 0 THEN "none"
                                    ELSE IF Len(domGames) > 0 THEN "dom"
                                    ELSE "html",
                            !.outcomes =
                                Append(@, IF Len(games) = 0 THEN "empty"
                                          ELSE "games")]

Rendered(page) ==
    LET domGames == extractGamesFromDom(page.dom)
        mapped == IF page.hasJson THEN Mapped(page.json, domGames) ELSE <<>>
        games == IF Len(domGames) > 0 THEN domGames
                 ELSE parseGamesFromHtml(page.html)
    IN  IF Len(mapped) > 0
        THEN [client EXCEPT !.pc = "returned", !.games = mapped,
                            !.via = "json",
                            !.outcomes = Append(@, "games")]
        ELSE IF Len(games) = 0 /\ client.retryCount < maxRetries - 1
        THEN [client EXCEPT !.pc = "close", !.retry = TRUE,
                            !.retryCount = @ + 1,
                            !.outcomes = Append(@, "empty")]
        ELSE [client EXCEPT !.pc = "close", !.retry = FALSE,
                            !.games = games,
                            !.via = IF Len(games) = 0 THEN "none"
                                    ELSE IF Len(domGames) > 0 THEN "dom"
                                    ELSE "html",
                            !.outcomes =
                                Append(@, IF Len(games) = 0 THEN "empty"
                                          ELSE "games")]

RenderSettles(page) ==
    /\ client.pc = "render"
    /\ client' = [Rendered(page) EXCEPT !.found = Found(page)]
    /\ UNCHANGED <<storeVars, runVars, notifier, access>>

\* await page.context().close() of the try block
CloseSettles ==
    /\ client.pc = "close"
    /\ client' = [client EXCEPT !.released = @ + 1,
                                !.pc = IF client.retry THEN "sleep"
                                       ELSE "returned"]
    /\ UNCHANGED <<storeVars, runVars, notifier, access>>

\* await page.context().close() of the catch block, and what follows it
CatchSettles ==
    /\ client.pc = "catch"
    /\ client' = IF client.retryCount < maxRetries - 1
                 THEN [client EXCEPT !.released = @ + 1, !.pc = "sleep",
                                     !.retryCount = @ + 1]
                 ELSE [client EXCEPT !.released = @ + 1, !.pc = "thrown"]
    /\ UNCHANGED <<storeVars, runVars, notifier, access>>

\* the pause before a retry is over: while (retryCount < maxRetries), and
\* the throw that follows the loop
SleepElapses ==
    /\ client.pc = "sleep"
    /\ client' = [client EXCEPT !.pc = IF client.retryCount < maxRetries
                                       THEN "newPage" ELSE "thrown"]
    /\ UNCHANGED <<storeVars, runVars, notifier, access>>

(***************************************************************************)
(* SpecFetch: one call of the fetch client, from its first newPage.        *)
(***************************************************************************)
InitFetch ==
    /\ db = EmptyDb
    /\ workers = [w \in Workers |-> IdleWorker]
    /\ finished = <<>>
    /\ ncalls = 0
    /\ runs = [c \in RunIds |-> IdleRun]
    /\ isContinuousSearchRunning = FALSE
    /\ isStarting = FALSE
    /\ isParsing = FALSE
    /\ nextCycleTimeout = 0
    /\ timers = {}
    /\ client \in {NewFetch(fn) :
                      fn \in {"fetchGamesByLetter", "fetchGamesByLetterPage"}}
    /\ notifier = IdleNotifier
    /\ access = NoAccess

NextFetch ==
    \/ \E ok \in BOOLEAN : NewPageSettles(ok)
    \/ RenderThrows
    \/ \E page \in Pages : RenderSettles(page)
    \/ CloseSettles
    \/ CatchSettles
    \/ SleepElapses

SpecFetch == InitFetch /\ [][NextFetch]_vars

(***************************************************************************)
(* Claims about the fetch client, checked under SpecFetch.                 *)
(***************************************************************************)
\* the attempts made so far, and what the latest came to
Attempts == Len(client.outcomes)
LastOutcome == client.outcomes[Attempts]
Retrying == Attempts > 0 /\ client.pc \in {"sleep", "newPage", "render"}

\* C21: a call of the fetch client renders at most maxRetries = 3 times,
\* whatever mixture of empty results and thrown errors it meets; it goes on
\* to another attempt only after an empty result or a thrown error of an
\* attempt that was not the third; an empty result of the third attempt is
\* returned as the empty list, and an error of the third attempt is thrown.
C21_AtMostThreeAttempts ==
    /\ client.acquired <= maxRetries
    /\ Attempts <= maxRetries
    /\ Retrying => LastOutcome \in {"empty", "error"} /\ Attempts < maxRetries
    /\ Attempts = maxRetries /\ LastOutcome = "empty"
          => /\ client.pc \in {"close", "returned"}
             /\ ~client.retry
             /\ client.games = <<>>
    /\ Attempts = maxRetries /\ LastOutcome = "error"
          => client.pc \in {"catch", "thrown"}

\* a call that met an error, then an empty page, then an empty page again,
\* and returned the empty list
C21_Witness ==
    /\ client.pc = "returned"
    /\ client.outcomes = <<"error", "empty", "empty">>
    /\ client.games = <<>>

\* C22: every rendering context a call of the fetch client acquired is
\* released by the time the call returns or throws, whichever way it leaves:
\* the contexts acquired are as many as the contexts released.
C22_EveryContextReleased ==
    client.pc \in {"returned", "thrown"}
        => client.acquired = client.released

\* C23: every entry a call of the fetch client returns has a non-empty title
\* and a non-empty url, whether it was reconciled from the JSON response,
\* scraped from the DOM or parsed from the static markup: a candidate that
\* lacks either is dropped.
C23_ReturnedEntriesHaveTitleAndUrl ==
    client.pc = "returned"
        => \A i \in 1..Len(client.games) :
              /\ Len(client.games[i].title) > 0
              /\ Len(client.games[i].url) > 0

\* the call returned the one entry of the static markup that has a title,
\* its text trimmed, the DOM showing only an anchor without a title
C23_Witness ==
    /\ client.pc = "returned"
    /\ client.via = "html"
    /\ client.games = <<[source_id |-> <<"2">>, title |-> <<"Bar">>,
                         url |-> Site \o <<"/games/", "2">>]>>

(***************************************************************************)
(* sendSingleGameNotification.  allChatIds is a Set: it is walked in       *)
(* insertion order, and a chat added while the walk is under way is walked *)
(* too.  botInstance is set when the bot starts, before any cycle runs.    *)
(* A call is [pc, chats, idx, log]: pc names the send it awaits ("rich",   *)
(* "plain") or how it ended, idx is the position of the walk in chats, and *)
(* log is history: the sends attempted, in order, and whether each failed. *)
(***************************************************************************)
ChatIds == 1..MaxChats

\* the orders in which chats can have written to the bot when the call is
\* made, one chat at least not having written yet
ChatLists ==
    {s \in UNION {[1..n -> ChatIds] : n \in 0..(MaxChats - 1)} :
        \A i, j \in 1..Len(s) : i # j => s[i] # s[j]}

\* for (const chatId of allChatIds): the next chat, or the return
NextChat(n) ==
    IF n.idx < Len(n.chats)
    THEN [n EXCEPT !.pc = "rich", !.idx = @ + 1]
    ELSE [n EXCEPT !.pc = "returned"]

NewNotification(chats) ==
    NextChat([pc |-> "called", chats |-> chats, idx |-> 0, log |-> <<>>])

\* the send with parse_mode Markdown settles
RichSettles(ok) ==
    /\ notifier.pc = "rich"
    /\ LET sent == [notifier EXCEPT
                      !.log = Append(@, [chat |-> notifier.chats[notifier.idx],
                                         mode |-> "rich", ok |-> ok])]
       IN  notifier' = IF ok THEN NextChat(sent)
                       ELSE [sent EXCEPT !.pc = "plain"]
    /\ UNCHANGED <<storeVars, runVars, client, access>>

\* the plain send of the catch block settles; its failure is logged
PlainSettles_Throws(ok) ==
    /\ notifier.pc = "plain"
    /\ LET sent == [notifier EXCEPT
                      !.log = Append(@, [chat |-> notifier.chats[notifier.idx],
                                         mode |-> "plain", ok |-> ok])]
       IN  notifier' = IF ok THEN NextChat(sent)
                       ELSE [sent EXCEPT !.pc = "thrown"]
    /\ UNCHANGED <<storeVars, runVars, client, access>>

PlainSettles(ok) ==
    /\ notifier.pc = "plain"
    /\ notifier' =
          NextChat([notifier EXCEPT
                      !.log = Append(@, [chat |-> notifier.chats[notifier.idx],
                                         mode |-> "plain", ok |-> ok])])
    /\ UNCHANGED <<storeVars, runVars, client, access>>

\* addChatId of the message handler, while a send is awaited
AddChatId(chatId) ==
    /\ notifier.pc \in {"rich", "plain"}
    /\ chatId \notin {notifier.chats[i] : i \in 1..Len(notifier.chats)}
    /\ notifier' = [notifier EXCEPT !.chats = Append(@, chatId)]
    /\ UNCHANGED <<storeVars, runVars, client, access>>

(***************************************************************************)
(* SpecNotify: one call of sendSingleGameNotification.                     *)
(***************************************************************************)
InitNotify ==
    /\ db = EmptyDb
    /\ workers = [w \in Workers |-> IdleWorker]
    /\ finished = <<>>
    /\ ncalls = 0
    /\ runs = [c \in RunIds |-> IdleRun]
    /\ isContinuousSearchRunning = FALSE
    /\ isStarting = FALSE
    /\ isParsing = FALSE
    /\ nextCycleTimeout = 0
    /\ timers = {}
    /\ client = IdleClient
    /\ notifier \in {NewNotification(chats) : chats \in ChatLists}
    /\ access = NoAccess

NextNotify ==
    \/ \E ok \in BOOLEAN : RichSettles(ok)
    \/ \E ok \in BOOLEAN : PlainSettles(ok)
    \/ \E chatId \in ChatIds : AddChatId(chatId)

SpecNotify == InitNotify /\ [][NextNotify]_vars

(***************************************************************************)
(* Claims about sendSingleGameNotification, checked under SpecNotify.      *)
(***************************************************************************)
Sends == notifier.log
Walked == {notifier.chats[i] : i \in 1..notifier.idx}

\* C24: sendSingleGameNotification never throws to its caller; for every
\* subscriber it attempts the rich-formatted send and, only if that send
\* failed, the plain-text send; a subscriber whose sends both failed does not
\* keep the remaining subscribers from being attempted.
C24_EverySubscriberAttempted ==
    /\ notifier.pc # "thrown"
    /\ notifier.pc = "returned" => notifier.idx = Len(notifier.chats)
    /\ \A i \in 1..notifier.idx :
          LET at == {k \in 1..Len(Sends) :
                        Sends[k].chat = notifier.chats[i]}
              rich == {k \in at : Sends[k].mode = "rich"}
              plain == {k \in at : Sends[k].mode = "plain"}
              done == i < notifier.idx \/ notifier.pc = "returned"
          IN  /\ Cardinality(rich) = IF done \/ notifier.pc = "plain"
                                     THEN 1 ELSE 0
              /\ Cardinality(plain) =
                    IF done /\ \E k \in rich : ~Sends[k].ok THEN 1 ELSE 0
              /\ \A k \in plain : k - 1 \in rich
    /\ \A k \in 1..Len(Sends) : Sends[k].chat \in Walked

\* both sends to the first subscriber failed, and the second subscriber was
\* sent the rich message
C24_Witness ==
    /\ notifier.pc = "returned"
    /\ Len(Sends) = 3
    /\ Sends[1] = [chat |-> notifier.chats[1], mode |-> "rich", ok |-> FALSE]
    /\ Sends[2] = [chat |-> notifier.chats[1], mode |-> "plain", ok |-> FALSE]
    /\ Sends[3] = [chat |-> notifier.chats[2], mode |-> "rich", ok |-> TRUE]

(***************************************************************************)
(* Claims about the entries of a cycle, checked under SpecCycle.           *)
(***************************************************************************)
\* C25: in a continuous cycle sendSingleGameNotification is called exactly
\* once for each upsert that returned isNew = true, and never for an upsert
\* that returned isNew = false or failed.
C25_NotifiedOncePerNewEntry ==
    \A c \in RunIds :
        runs[c].kind = "continuous"
            => /\ runs[c].issued.notifies = runs[c].newGames
               /\ \A k \in DOMAIN runs[c].tasks :
                     runs[c].tasks[k].notified =
                        IF runs[c].tasks[k].outcome = "new" THEN 1 ELSE 0

\* a batch of a continuous cycle with an entry that was new, its notification
\* under way, and an entry the store updated or failed on, its task finished
C25_Witness ==
    \E c \in RunIds :
        /\ runs[c].kind = "continuous"
        /\ \E k, m \in DOMAIN runs[c].tasks :
              /\ runs[c].tasks[k].outcome = "new"
              /\ runs[c].tasks[k].pc = "notify"
              /\ runs[c].tasks[k].notified = 1
              /\ runs[c].tasks[m].outcome \in {"updated", "error"}
              /\ runs[c].tasks[m].pc = "done"
              /\ runs[c].tasks[m].notified = 0

\* C28: every sighting of an entry whose record exists mutates the record: a
\* step in which a cycle counts an entry as already stored, skipped or
\* updated, writes to the table (updated_at at least is refreshed).
C28_EverySightingWrites ==
    [][\A c \in RunIds :
          (\/ runs'[c].skippedGames # runs[c].skippedGames
           \/ runs'[c].updatedGames # runs[c].updatedGames)
              => \E row \in db'.games :
                    row.updated_at = db'.clock /\ db'.clock # db.clock]_vars

(***************************************************************************)
(* SpecCallback: one cycle of parseNewGames under each progress callback:  *)
(* none registered, the async function handleParseGames registers, and a   *)
(* function that throws.                                                   *)
(***************************************************************************)
Callbacks == {"none", "async", "throws"}

InitCallback ==
    /\ db \in CycleSeeds
    /\ workers = [w \in Workers |-> IdleWorker]
    /\ finished = <<>>
    /\ ncalls = 0
    /\ isStarting = FALSE
    /\ nextCycleTimeout = 0
    /\ timers = {}
    /\ client = IdleClient
    /\ notifier = IdleNotifier
    /\ access = NoAccess
    /\ isContinuousSearchRunning = FALSE
    /\ isParsing = TRUE
    /\ \E callback \in Callbacks :
          runs = [c \in RunIds |->
                    IF c # 1 THEN IdleRun
                    ELSE [NewRun("parse") EXCEPT !.pc = "init",
                                                 !.callback = callback]]

NextCallback ==
    \/ \E res \in FiniteUpstream(runs[1].page) : FetchSettles(1, res)
    \/ \E k \in 1..MaxBatch, io \in IoOutcomes : TaskStep(1, k, io)
    \/ \E io \in IoOutcomes : CountReturns(1, io)
    \/ \E ok \in BOOLEAN : ParseMessageSent(1, ok)
    \/ \E ok \in BOOLEAN : ParseBrowserReady(1, ok)
    \/ ResetParsingState

SpecCallback == InitCallback /\ [][NextCallback]_vars

\* C26: the progress callback has no effect on the control flow of
\* parseNewGames: whatever the callback does, throwing included, the cycle
\* fetches page 1 of every letter it enters, as it does with no callback, and
\* no exception of the callback leaves parseNewGames.
C26_CallbackLeavesFlowAlone ==
    \A c \in RunIds :
        runs[c].kind = "parse"
            => /\ ~runs[c].aborted
               /\ runs[c].issued.fetches >= runs[c].issued.keys

(***************************************************************************)
(* Claims about the records kept, checked under SpecStore.                 *)
(***************************************************************************)
\* C27: no call of upsertGame or upsertGameWithStatus deletes a record: every
\* record present when the call was made is present when it returns, with
\* the same id and the same created_at.
C27_NoRecordDeleted ==
    \A k \in 1..Len(finished) :
        \A old \in finished[k].pre :
            \E new \in finished[k].post :
                new.id = old.id /\ new.created_at = old.created_at

(***************************************************************************)
(* SpecExample: one cycle of either kind from an empty store, over an      *)
(* upstream whose first key shows two distinct entries on page 1 and       *)
(* nothing on the pages after it.                                          *)
(***************************************************************************)
TwoEntries == <<Catalogue[1], Catalogue[3]>>

ExampleUpstream(i, page) ==
    IF i = 1
    THEN {[throws |-> FALSE,
           games |-> IF page = 1 THEN TwoEntries ELSE <<>>]}
    ELSE FiniteUpstream(page)

InitExample ==
    /\ db = EmptyDb
    /\ workers = [w \in Workers |-> IdleWorker]
    /\ finished = <<>>
    /\ ncalls = 0
    /\ isStarting = FALSE
    /\ nextCycleTimeout = 0
    /\ timers = {}
    /\ client = IdleClient
    /\ notifier = IdleNotifier
    /\ access = NoAccess
    /\ \E kind \in {"continuous", "parse"} :
          /\ isContinuousSearchRunning = (kind = "continuous")
          /\ isParsing = (kind = "parse")
          /\ runs = [c \in RunIds |->
                        IF c # 1 THEN IdleRun
                        ELSE IF kind = "parse"
                        THEN [NewRun("parse") EXCEPT !.pc = "init"]
                        ELSE EnterLetter(NewRun("continuous"), FALSE)]

NextExample ==
    \/ \E res \in ExampleUpstream(runs[1].i, runs[1].page) : FetchSettles(1, res)
    \/ DelayElapses(1)
    \/ \E k \in 1..MaxBatch, io \in IoOutcomes : TaskStep(1, k, io)
    \/ \E k \in 1..MaxBatch : NotifySettles(1, k)
    \/ \E io \in IoOutcomes : CountReturns(1, io)
    \/ \E ok \in BOOLEAN : ParseMessageSent(1, ok)
    \/ \E ok \in BOOLEAN : ParseBrowserReady(1, ok)
    \/ ResetParsingState
    \/ StopContinuousSearch

SpecExample == InitExample /\ [][NextExample]_vars

RECURSIVE Sum(_)
Sum(seq) == IF seq = <<>> THEN 0 ELSE Head(seq) + Sum(Tail(seq))

\* the first key's walk has ended on its streak of empty pages, no entry
\* failed, and the walker has just moved to the second key
FirstKeyWalked(r) ==
    /\ r.lastWalk.i = 1
    /\ r.lastWalk.reason = "streak"
    /\ r.errors = 0
    /\ r.i = 2
    /\ r.sizes = <<>>

\* the size of the batch a step that settles a fetch has recorded: the last
\* of the walk's sizes, or of the sizes of the walk the step ended
FetchedSize ==
    LET sizes == IF runs'[1].lastWalk # runs[1].lastWalk
                 THEN runs'[1].lastWalk.sizes ELSE runs'[1].sizes
    IN  sizes[Len(sizes)]

\* C29: for a key whose page 1 shows 2 distinct entries and whose pages 2, 3
\* and 4 are empty, from an empty store, the counters after that key are
\* totalGames = 2 and newGames = 2, and the walker moves to the next key
\* right after page 4; in general totalGames is the sum of the sizes of the
\* batches fetched (each fetch that settles adds the size of its batch, and
\* nothing else adds to it) and newGames the number of upserts that returned
\* isNew = true, which are the rows inserted.
C29_CountersOfTheWalk ==
    /\ [](LET r == runs[1]
          IN  /\ FirstKeyWalked(r)
                    => /\ r.lastWalk.fetched = <<1, 2, 3, 4>>
                       /\ r.lastWalk.sizes = <<2, 0, 0, 0>>
                       /\ r.totalGames = 2
                       /\ r.newGames = 2
              /\ r.i = 1 /\ r.pc \in {"fetch", "delay", "join"}
                    => r.totalGames = Sum(r.sizes)
              /\ r.newGames = db.lastId)
    /\ [][runs'[1].totalGames =
             runs[1].totalGames +
                (IF runs[1].pc = "fetch" /\ runs'[1] # runs[1]
                 THEN FetchedSize ELSE 0)]_vars

\* the walker at the second key, the first key walked as in the example
C29_Witness ==
    /\ FirstKeyWalked(runs[1])
    /\ runs[1].pc = "fetch"
    /\ runs[1].totalGames = 2
    /\ runs[1].newGames = 2

(***************************************************************************)
(* Access control: parseAllowedUserIds of the configuration and            *)
(* isUserAllowed of the handlers.  The configured string is the sequence   *)
(* of its characters, Null when the variable is unset.                     *)
(***************************************************************************)
Comma == ","
ConfigChars == Digits \cup {Comma, Blank, "a"}

\* the values ALLOWED_USER_IDS can have
Configs ==
    {Null} \cup UNION {[1..n -> ConfigChars] : n \in 0..MaxConfig}

\* the ids of the users who write to the bot
UserIds == {1, 2, 3, 12}

\* rawIds.split(',')
RECURSIVE Split(_)
Split(s) ==
    LET at == {i \in 1..Len(s) : s[i] = Comma}
    IN  IF at = {} THEN <<s>>
        ELSE LET i == CHOOSE j \in at : \A k \in at : j <= k
             IN  <<SubSeq(s, 1, i - 1)>> \o Split(SubSeq(s, i + 1, Len(s)))

DigitValue(ch) == IF ch = "1" THEN 1 ELSE 2

\* the digits a string starts with, after its leading blanks
RECURSIVE LeadingDigits(_)
LeadingDigits(s) ==
    IF Len(s) > 0 /\ Head(s) \in Digits
    THEN <<Head(s)>> \o LeadingDigits(Tail(s))
    ELSE <<>>

RECURSIVE Decimal(_)
Decimal(ds) ==
    IF ds = <<>> THEN 0
    ELSE 10 * Decimal(SubSeq(ds, 1, Len(ds) - 1)) + DigitValue(ds[Len(ds)])

\* parseInt(trimmed): <<n>>, or <<>> for NaN
parseInt(s) ==
    LET ds == LeadingDigits(TrimStart(s))
    IN  IF ds = <<>> THEN <<>> ELSE <<Decimal(ds)>>

RECURSIVE Concat(_)
Concat(seqs) == IF seqs = <<>> THEN <<>> ELSE Head(seqs) \o Concat(Tail(seqs))

\* the list config.ALLOWED_USER_IDS holds
parseAllowedUserIds(rawIds) ==
    IF rawIds = Null \/ Trim(rawIds) = <<>> THEN <<>>
    ELSE LET parts == Split(rawIds)
         IN  Concat([i \in 1..Len(parts) |-> parseInt(Trim(parts[i]))])

isUserAllowed(ids, userId) ==
    Len(ids) = 0 \/ \E i \in 1..Len(ids) : ids[i] = userId

\* the configuration as loaded when the bot starts, no message handled yet
Loaded(rawIds) ==
    [pc |-> "loaded", rawIds |-> rawIds, ids |-> parseAllowedUserIds(rawIds),
     userId |-> 0, served |-> FALSE]

\* a handler of the bot receives a message of user userId (0: the message
\* names no user) and serves it or answers that access is denied
Message(userId) ==
    /\ access.pc \in {"loaded", "handled"}
    /\ access' = [access EXCEPT
                    !.pc = "handled",
                    !.userId = userId,
                    !.served = ~(userId # 0 /\ ~isUserAllowed(access.ids, userId))]
    /\ UNCHANGED <<storeVars, runVars, client, notifier>>

(***************************************************************************)
(* SpecAccess: the bot under each configuration, handling messages.        *)
(***************************************************************************)
InitAccess ==
    /\ db = EmptyDb
    /\ workers = [w \in Workers |-> IdleWorker]
    /\ finished = <<>>
    /\ ncalls = 0
    /\ runs = [c \in RunIds |-> IdleRun]
    /\ isContinuousSearchRunning = FALSE
    /\ isStarting = FALSE
    /\ isParsing = FALSE
    /\ nextCycleTimeout = 0
    /\ timers = {}
    /\ client = IdleClient
    /\ notifier = IdleNotifier
    /\ access \in {Loaded(rawIds) : rawIds \in Configs}

NextAccess == \E userId \in UserIds \cup {0} : Message(userId)

SpecAccess == InitAccess /\ [][NextAccess]_vars

\* the ids the configured string lists: its comma-separated elements that
\* are numerals, blanks around them aside
Listed(rawIds) ==
    LET parts == Split(rawIds)
    IN  {Decimal(Trim(parts[i])) :
            i \in {j \in 1..Len(parts) :
                      /\ Trim(parts[j]) # <<>>
                      /\ \A k \in 1..Len(Trim(parts[j])) :
                            Trim(parts[j])[k] \in Digits}}

Unset(rawIds) == rawIds = Null \/ Trim(rawIds) = <<>>

\* C30: when ALLOWED_USER_IDS is unset or empty every user is served; when it
\* is set to a non-empty value a user is served only if their id is one of
\* the ids listed, for every configured string and every user id.
C30_OnlyListedUsersServed ==
    access.pc = "handled" /\ access.userId # 0
        => IF Unset(access.rawIds) THEN access.served
           ELSE access.served => access.userId \in Listed(access.rawIds)

(***************************************************************************)
(* Further claims about the scheduler, checked under Spec.                 *)
(***************************************************************************)
\* C31: when stopContinuousSearch returns the run state is reset as a whole:
\* the search is not running, it is not starting, and no next-cycle timer
\* remains pending.
C31_StopResetsRunState ==
    [][isContinuousSearchRunning /\ ~isContinuousSearchRunning'
          => ~isStarting' /\ timers' = {}]_vars

(***************************************************************************)
(* Further claims about the fetch client, checked under SpecFetch.         *)
(***************************************************************************)
\* what the attempt made last yielded, once its page has rendered
HasRendered == Attempts > 0 /\ LastOutcome \in {"games", "empty"}
Yield == IF LastOutcome = "empty" THEN <<>> ELSE client.games

\* C32: the extraction strategies are a chain tried in order until one yields
\* a non-empty list: the JSON-reconciled entries, then the entries of the
\* DOM, then the parse of the static markup.  The attempt yields nothing
\* only if all three yield nothing, and it yields what a later strategy
\* found only when every earlier one found nothing.
C32_StrategiesTriedInOrder ==
    HasRendered
        => LET f == client.found
           IN  /\ Yield = <<>> <=> f.json = <<>> /\ f.dom = <<>> /\ f.html = <<>>
               /\ f.json # <<>> => Yield = f.json
               /\ f.json = <<>> /\ f.dom # <<>> => Yield = f.dom
               /\ f.json = <<>> /\ f.dom = <<>> => Yield = f.html

\* the call returned the entries of the DOM although the markup has entries
\* too, the JSON response reconciling to nothing
C32_Witness ==
    /\ client.pc = "returned"
    /\ client.via = "dom"
    /\ client.found.json = <<>>
    /\ client.found.html # <<>>
    /\ client.found.html # client.found.dom
    /\ client.games = client.found.dom

(***************************************************************************)
(* Further claims about the store, checked under SpecStore.                *)
(***************************************************************************)
UniqueIdentities(rows) ==
    \A r, q \in rows : r.source_id = q.source_id => r = q

\* C33: on a table whose identities are unique, an upsertGameWithStatus call
\* that no other call overlaps resolves, new or updated, unless the store
\* itself fails: it is never rejected because of the write its matching
\* chose.
C33_RejectsOnlyOnStoreFailure ==
    \A k \in 1..Len(finished) :
        LET c == finished[k]
        IN  (/\ c.op = "upsertGameWithStatus" /\ Solo(c)
             /\ UniqueIdentities(c.pre))
                => Resolved(c) \/ c.result = "ioerror"

UniquePairs(rows) ==
    \A r, q \in rows : r.title = q.title /\ r.url = q.url => r = q

\* C34: an upsertGameWithStatus call that no other call overlaps, made on a
\* table in which no two records share a (title, url) pair, leaves a table in
\* which no two records share one.
C34_PairsStayUnique ==
    \A k \in 1..Len(finished) :
        LET c == finished[k]
        IN  (c.op = "upsertGameWithStatus" /\ Solo(c) /\ UniquePairs(c.pre))
                => UniquePairs(c.post)

\* a lone call rewrote the title or url of the record holding its identity,
\* next to another record, and the pairs are still distinct
C34_Witness ==
    \E k \in 1..Len(finished) :
        LET c == finished[k]
        IN  /\ c.op = "upsertGameWithStatus" /\ Solo(c) /\ c.result = "updated"
            /\ UniquePairs(c.pre) /\ Cardinality(c.pre) = 2
            /\ Matches(c.pre, c.game) = {} /\ Holders(c.pre, c.game) # {}
            /\ Matches(c.post, c.game) # {}

(***************************************************************************)
(* Counter accounting, checked under SpecCycle.                            *)
(***************************************************************************)
Accounted(r) ==
    r.newGames + r.updatedGames + r.errors
        + (IF r.kind = "parse" THEN r.skippedGames ELSE 0)

\* C37: when the letter loop of a cycle that was never cancelled is over,
\* every entry counted in totalGames is counted in exactly one of newGames,
\* updatedGames, errors and, for parseNewGames, skippedGames; the continuous
\* cycle skips nothing.
C37_CountersAddUp ==
    \A c \in RunIds :
        CompletedUncancelled(runs[c])
            => /\ runs[c].totalGames = Accounted(runs[c])
               /\ runs[c].kind = "continuous" => runs[c].skippedGames = 0

\* a parse cycle is over uncancelled, having counted a new entry and a
\* failed one
C37_Witness ==
    /\ CompletedUncancelled(runs[1]) /\ runs[1].kind = "parse"
    /\ runs[1].newGames > 0 /\ runs[1].errors > 0
    /\ runs[1].totalGames > 2

\* C38: while the search is stopped (after stopContinuousSearch returned and
\* before the next start) no cycle starts the delivery of a new-entry
\* notification, not even for a store call that was in flight when the search
\* was stopped.
C38_NoDeliveryWhileStopped ==
    [][(~isContinuousSearchRunning /\ ~isContinuousSearchRunning')
          => \A c \in RunIds :
                runs'[c].issued.notifies = runs[c].issued.notifies]_vars

(***************************************************************************)
(* SpecBot: the bot's handlers of the user's requests, from the module's    *)
(* initial state: parse requests and cancel requests, the start and stop of *)
(* the continuous search, next-cycle timers, and the steps of the cycles    *)
(* they started.                                                            *)
(***************************************************************************)
\* closeBrowser: browser.close() reaches every fetch awaited at that moment
CloseBrowser(rs) ==
    [c \in RunIds |-> IF rs[c].pc = "fetch" THEN [rs[c] EXCEPT !.hit = TRUE]
                      ELSE rs[c]]

\* handleParseGames up to its first await, bot.sendMessage: refused while
\* isParsing, else the parsing state is set (c is the cycle the handler will
\* run)
HandleParseGames(c) ==
    IF isParsing
    THEN c = 1 /\ UNCHANGED vars
    ELSE /\ c \in FreeRuns /\ \A d \in FreeRuns : c <= d
         /\ isParsing' = TRUE
         /\ runs' = [runs EXCEPT ![c] = [NewRun("parse") EXCEPT !.pc = "init"]]
         /\ UNCHANGED <<isContinuousSearchRunning, isStarting,
                        nextCycleTimeout, timers>>
         /\ UNCHANGED <<storeVars, unitVars>>

\* handleCancelParsing while isParsing: resetParsingState, then closeBrowser
\* up to its await
HandleCancelParsing ==
    /\ isParsing
    /\ isParsing' = FALSE
    /\ runs' = CloseBrowser(
                  [c \in RunIds |->
                      IF runs[c].kind = "parse" /\ InFlightRun(runs[c])
                      THEN [runs[c] EXCEPT !.cancelAsked = TRUE]
                      ELSE runs[c]])
    /\ UNCHANGED <<isContinuousSearchRunning, isStarting, nextCycleTimeout,
                   timers>>
    /\ UNCHANGED <<storeVars, unitVars>>

\* the tail of handleParseGames, in its try block or in its catch: the
\* bot.sendMessage awaited after resetParsingState settles and closeBrowser
\* is called
ParseHandlerCloses(c) ==
    /\ runs[c].kind = "parse" /\ runs[c].pc = "done" /\ ~runs[c].closed
    /\ runs' = CloseBrowser([runs EXCEPT ![c].closed = TRUE])
    /\ UNCHANGED <<isContinuousSearchRunning, isStarting, isParsing,
                   nextCycleTimeout, timers>>
    /\ UNCHANGED <<storeVars, unitVars>>

NextBot ==
    \/ \E c \in RunIds : HandleParseGames(c)
    \/ HandleCancelParsing
    \/ \E c \in RunIds, ok \in BOOLEAN : ParseMessageSent(c, ok)
    \/ \E c \in RunIds, ok \in BOOLEAN : ParseBrowserReady(c, ok)
    \/ \E c \in RunIds, io \in IoOutcomes : CountReturns(c, io)
    \/ \E c \in RunIds : ParseHandlerCloses(c)
    \/ \E c \in RunIds : StartContinuousSearch(c)
    \/ StopContinuousSearch
    \/ \E t \in RunIds, c \in RunIds : TimerFires(t, c)
    \/ \E c \in RunIds : \E res \in SparseUpstream(runs[c].i, runs[c].page) :
          FetchSettles(c, res)
    \/ \E c \in RunIds : DelayElapses(c)
    \/ \E c \in RunIds, k \in 1..MaxBatch, io \in IoOutcomes : TaskStep(c, k, io)
    \/ \E c \in RunIds, k \in 1..MaxBatch : NotifySettles(c, k)

SpecBot == Init /\ [][NextBot]_vars

\* parseNewGames of the cycle was called and has not returned
Parsing(r) == r.kind = "parse" /\ r.pc \in {"fetch", "join", "count"}

ParsesInFlight == {c \in RunIds : Parsing(runs[c])}

\* C35: whatever the order of parse requests, cancel requests and run
\* completions, at most one parseNewGames run is in flight, and no parse
\* request is accepted while a run the user cancelled is still executing.
C35_AtMostOneParseRun ==
    /\ [](Cardinality(ParsesInFlight) <= 1)
    /\ [][\A d \in RunIds :
             (runs[d].pc = "idle" /\ runs'[d].kind = "parse"
                 /\ runs'[d].pc = "init")
             => ~\E c \in RunIds : Parsing(runs[c]) /\ runs[c].cancelAsked]_vars

\* the letter loop of the parse cycle was left before the last letter was
\* walked to its end
EndedEarly(r) ==
    /\ r.kind = "parse" /\ r.pc = "count"
    /\ r.issued.keys < NumLetters \/ r.lastWalk.reason = "cancel"

\* C36: a parseNewGames run leaves its letter loop early only when a cancel
\* request was handled after the run's handler started; the resetParsingState
\* that follows the return or the failure of another parse run never ends it.
C36_OnlyCancelEndsRunEarly ==
    \A c \in RunIds : EndedEarly(runs[c]) => runs[c].cancelAsked

\* C39: no manual parse run is in flight together with a cycle of the
\* continuous search, and so no closeBrowser of the parse handlers reaches a
\* fetch of a continuous cycle.
C39_ParseAndSearchExclusive ==
    /\ ~\E c, d \in RunIds : /\ Parsing(runs[c])
                             /\ runs[d].kind = "continuous"
                             /\ InFlightRun(runs[d])
    /\ \A d \in RunIds : runs[d].kind = "continuous" => ~runs[d].hit

====
